---- MODULE Spec2Model ----
(***************************************************************************)
(* Pocket Aces: the poker state machine of the repository.                 *)
(*                                                                         *)
(* The model follows one room and the hands played in it, the first hand   *)
(* most closely:                                                           *)
(*   - the Player objects (shared by the room and every GameState of it),  *)
(*   - the GameStore indexes (active_games, game_history, the room),       *)
(*   - the PokerEngine deck,                                               *)
(*   - the two action paths, GameService.make_player_action and            *)
(*     GameStore.make_player_action, and PokerEngine.advance_game_phase.   *)
(* Indexes into Python lists are kept 0-based, as in the source; At(s, i)  *)
(* reads s[i].                                                             *)
(***************************************************************************)
EXTENDS Integers, Sequences, FiniteSets, TLC

VARIABLES
    players,        \* the Player objects, by player id
    room,           \* the GameRoom: players (ids, seat order), current_game
    game,           \* the GameState object of the room's hand (NoGame before)
    active_games,   \* GameStore.active_games: the game ids in the index
    game_history,   \* GameStore.game_history: the GameResult records
    deck,           \* PokerEngine.deck
    last_call,      \* history: the last operation called and what it returned
    round_mark,     \* history: the index of action_history from which the
                    \* actions of the open betting round count (the first
                    \* action of the phase, or the last raise)
    buy_in,         \* history: the chips each player sat down with
    tasks,          \* the calls of make_player_action in flight, by task
    running,        \* the task the event loop is running (None: no task)
    game_lock,      \* GameStore._game_locks[game_id]: the task holding it
    room_lock,      \* GameStore._room_locks[room_id]: the task holding it
    store_lock,     \* GameStore._store_lock: the task holding it
    lock_calls,     \* history: the calls submitted as tasks that go through
                    \* the locks of the store
    later,          \* the GameState objects of the games created in the room
                    \* when it had one already, in the order created; they
                    \* hold the Player objects of the room, as `game` does
    other,          \* a second room on the same store and engine: its Player
                    \* objects, its GameRoom and the GameState of its hand
    evaluation      \* cards handed to PokerEngine.evaluate_hand and the
                    \* HandRank it returned

vars == <<players, room, game, active_games, game_history, deck, last_call,
          round_mark, buy_in, tasks, running, game_lock, room_lock, store_lock,
          lock_calls, later, other, evaluation>>

----------------------------------------------------------------------------
(* Bounds of the model *)

\* calls of make_player_action are followed while action_history is shorter:
\* with both action paths, through GameService alone, and with the engine
MaxActions == 3
MaxServiceActions == 6
MaxEngineActions == 2
\* and with the calls followed one await at a time, as tasks of the event loop
MaxTaskActions == 1
\* and with a caller writing to the object get_game returned
MaxSnapshotActions == 1
\* and in the games created in rooms of every kind
MaxRoomActions == 2
\* and in a hand that both action paths and the engine take to its showdown
MaxHandActions == 2
\* games are created in the room while fewer than this many have been
MaxGamesCreated == 3
\* and hands are started in it, whether or not it has one, while fewer than
\* this many have been
MaxHandsStarted == 2
\* calls of make_player_action on each of two hands of one room are followed
\* while its action_history is shorter
MaxRoomHandActions == 2
\* and in a hand the player to act plays alone through GameService
MaxProgressActions == 5

\* the amounts a RAISE is submitted with
Amounts == {30, 40}

\* the chips the three players sit down with (seat order A, B, C)
Stacks == { <<100, 100, 100>>, <<30, 100, 100>> }

\* and in the hands played with the big blind short of chips: B holds less
\* than the big blind, and less than the small blind
ShortStacks == { <<100, 15, 100>>, <<100, 5, 100>> }

\* the outcomes of random.shuffle that are followed: deck[i] = (i * k) % 53 - 1
ShuffleKeys == {1, 7}

\* the tasks of the event loop that are followed, and what they submit
TaskIds == {1, 2}
TaskActionTypes == {"fold", "call", "raise"}

\* the cards handed to the evaluator, in every order: the wheel and the
\* six-high straight (suits mixed), hearts 2 to 7, the wheel with a six,
\* aces, kings and queens paired with a deuce, and of one suit the wheel and
\* 10-J-Q-K-A
EvalCardSets == { <<12, 13, 1, 2, 3>>, <<13, 1, 2, 3, 4>>,
                  <<0, 1, 2, 3, 4, 5>>, <<12, 13, 1, 2, 3, 17>>,
                  <<12, 25, 11, 24, 10, 23, 26>>,
                  <<12, 0, 1, 2, 3>>, <<8, 9, 10, 11, 12>> }
\* and how many of them are the hole cards
HoleCounts == {0, 2}

\* GameStore.create_room(name, max_players=3)
MaxPlayersDefault == 3
\* the values of max_players rooms are created with
MaxPlayersOptions == {2, MaxPlayersDefault}

SmallBlindDefault == 10
BigBlindDefault == 20

----------------------------------------------------------------------------
(* Values *)

None == -1
PlayerIds == {"A", "B", "C"}
GameId == 1
\* the id of the room, and a room id GameStore.rooms does not hold
RoomId == "room"
RoomIds == {RoomId, "no_room"}
\* the second room's players and the id of its game
OtherPlayerIds == {"D", "E"}
OtherGameId == 2
\* the uuid4 values the games created in the room draw for game_id, in turn
GameIds == {GameId} \cup {OtherGameId + k : k \in 1..(MaxGamesCreated - 1)}
ActionTypes == {"fold", "check", "call", "raise", "all_in"}

At(s, i) == s[i + 1]
Range(s) == {s[i] : i \in 1..Len(s)}
Last(s) == s[Len(s)]
\* the element of a one-element set: The({e}) is e, computed once
The(S) == CHOOSE x \in S : TRUE

RECURSIVE SumOver(_, _)
\* sum of f[x] over the finite set S
SumOver(f, S) ==
    IF S = {} THEN 0
    ELSE LET x == CHOOSE y \in S : TRUE IN f[x] + SumOver(f, S \ {x})

\* the state of the program as one record, for the operators below
State == [players |-> players, room |-> room, game |-> game,
          active_games |-> active_games, game_history |-> game_history,
          deck |-> deck]

NoGame == [phase |-> "none"]
NoHand == [rank |-> "none", value |-> 0, cards |-> <<>>]

\* a task of the event loop with no call to run
IdleTask == [pc |-> "idle", path |-> "none", player_id |-> "none",
             action_type |-> "none", amount |-> None, in_turn |-> FALSE,
             base |-> [game |-> NoGame], winners |-> <<>>]

----------------------------------------------------------------------------
(* Cards and the hand evaluator (poker_engine.py) *)

\* card c of the fresh deck: suits in the order of _initialize_deck
Value(c) == (c % 13) + 2
Suit(c) == c \div 13

DeckSize == 52

\* random.shuffle(self.deck) with outcome k: a permutation of the 52 cards
shuffle_deck(k) == [i \in 1..DeckSize |-> ((i * k) % (DeckSize + 1)) - 1]

_initialize_deck == [key |-> 1, left |-> DeckSize]

\* The deck is kept as the shuffle that ordered it and the number of cards
\* left: cards leave it only by list.pop(), from the end. Key 1 is the order
\* _initialize_deck builds.
DeckOf(key, left) == [key |-> key, left |-> left]

\* the list self.deck
Cards(d) == SubSeq(shuffle_deck(d.key), 1, d.left)

\* n times deck.pop(): the cards in the order popped, and the deck left
PopN(d, n) ==
    [cards |-> [i \in 1..n |-> Cards(d)[d.left + 1 - i]],
     deck |-> DeckOf(d.key, d.left - n)]

\* insert c behind every card of s whose value is >= Value(c)
InsertDesc(s, c) ==
    LET k == Cardinality({i \in 1..Len(s) : Value(s[i]) >= Value(c)})
    IN SubSeq(s, 1, k) \o <<c>> \o SubSeq(s, k + 1, Len(s))

RECURSIVE SortDesc(_)
\* cards.sort(key=value, reverse=True): stable, descending
SortDesc(s) ==
    IF s = <<>> THEN <<>>
    ELSE InsertDesc(SortDesc(SubSeq(s, 1, Len(s) - 1)), s[Len(s)])

Count(cards, v) == Cardinality({i \in 1..Len(cards) : Value(cards[i]) = v})
Values(cards) == {Value(cards[i]) : i \in 1..Len(cards)}

_is_flush(cards) == \A i \in 1..Len(cards) : Suit(cards[i]) = Suit(cards[1])

_is_straight(cards) ==
    \E s \in {SortDesc(cards)} :
        \/ \A i \in 1..(Len(s) - 1) : Value(s[i]) - Value(s[i + 1]) = 1
        \/ (Len(s) = 5 /\ Values(s) = {2, 3, 4, 5, 14})

_is_straight_flush(cards) == _is_flush(cards) /\ _is_straight(cards)

_is_royal_flush(cards) == _is_straight_flush(cards) /\ Value(cards[1]) = 14

_is_four_of_a_kind(cards) == \E v \in Values(cards) : Count(cards, v) = 4

_is_full_house(cards) ==
    /\ Cardinality(Values(cards)) = 2
    /\ \E v \in Values(cards) : Count(cards, v) = 3

_is_three_of_a_kind(cards) == \E v \in Values(cards) : Count(cards, v) = 3

_is_two_pair(cards) ==
    Cardinality({v \in Values(cards) : Count(cards, v) = 2}) = 2

_is_one_pair(cards) == \E v \in Values(cards) : Count(cards, v) = 2

HandRank(rank, value, cards) == [rank |-> rank, value |-> value, cards |-> cards]

_evaluate_five_cards(cards5) ==
    IF Len(cards5) # 5 THEN HandRank("invalid", 0, cards5)
    ELSE LET ranked(cards) ==
                 IF _is_royal_flush(cards) THEN HandRank("royal_flush", 10, cards)
                 ELSE IF _is_straight_flush(cards) THEN HandRank("straight_flush", 9, cards)
                 ELSE IF _is_four_of_a_kind(cards) THEN HandRank("four_of_a_kind", 8, cards)
                 ELSE IF _is_full_house(cards) THEN HandRank("full_house", 7, cards)
                 ELSE IF _is_flush(cards) THEN HandRank("flush", 6, cards)
                 ELSE IF _is_straight(cards) THEN HandRank("straight", 5, cards)
                 ELSE IF _is_three_of_a_kind(cards) THEN HandRank("three_of_a_kind", 4, cards)
                 ELSE IF _is_two_pair(cards) THEN HandRank("two_pair", 3, cards)
                 ELSE IF _is_one_pair(cards) THEN HandRank("one_pair", 2, cards)
                 ELSE HandRank("high_card", 1, cards)
         \* cards.sort(...) is done once, before the tests
         IN The({ranked(cards) : cards \in {SortDesc(cards5)}})

\* the index sets itertools.combinations(cards, 5) runs through
Combinations5(n) == {c \in SUBSET (1..n) : Cardinality(c) = 5}

\* c comes before d in the order of itertools.combinations
ComboBefore(c, d) ==
    c # d /\ (CHOOSE m \in ((c \ d) \cup (d \ c)) :
                 \A x \in ((c \ d) \cup (d \ c)) : m <= x) \in c

RECURSIVE Pick(_, _, _)
\* the cards of s at the indexes in c, from index i on, in list order
Pick(s, c, i) ==
    IF i > Len(s) THEN <<>>
    ELSE (IF i \in c THEN <<s[i]>> ELSE <<>>) \o Pick(s, c, i + 1)

_get_best_hand(cards) ==
    IF Len(cards) < 5 THEN HandRank("high_card", 1, cards)
    ELSE LET \* the first combination of ranked that reaches the greatest value
             first(ranked) ==
                 The({CHOOSE r \in ranked :
                          /\ r[2].value = top
                          /\ \A q \in ranked :
                                q[2].value = top
                                    => (q[1] = r[1] \/ ComboBefore(r[1], q[1])) :
                      top \in {v \in {r[2].value : r \in ranked} :
                                  \A r \in ranked : r[2].value <= v}})
         IN The({first(ranked)[2] :
                   ranked \in {{<<c, _evaluate_five_cards(Pick(cards, c, 1))>> :
                                    c \in Combinations5(Len(cards))}}})

evaluate_hand(hole_cards, community_cards) ==
    _get_best_hand(hole_cards \o community_cards)

----------------------------------------------------------------------------
(* Reading the game (game_models.py) *)

NumPlayers(g) == Len(g.players)

\* the index of the first player of g with this id, None when there is none
IndexOf(g, player_id) ==
    IF player_id \in Range(g.players)
    THEN (CHOOSE i \in 1..Len(g.players) :
             /\ g.players[i] = player_id
             /\ \A j \in 1..(i - 1) : g.players[j] # player_id) - 1
    ELSE None

\* the ids of the players of g with a status in sts, in seat order
WithStatus(S, sts) ==
    SelectSeq(S.game.players, LAMBDA p : S.players[p].status \in sts)

\* GameRoom.can_start_game
can_start_game(S) ==
    /\ \E p \in Range(S.room.players) : S.players[p].is_human
    /\ \E p \in Range(S.room.players) : S.players[p].is_agent

\* add_player without the test of max_players
add_player_Unbounded(S, player_id) ==
    IF player_id \in Range(S.room.players) THEN [ok |-> FALSE, S |-> S]
    ELSE [ok |-> TRUE, S |-> [S EXCEPT !.room.players = Append(@, player_id)]]

\* GameRoom.add_player: [ok, S]
add_player(S, player_id) ==
    IF Len(S.room.players) >= S.room.max_players THEN [ok |-> FALSE, S |-> S]
    ELSE IF player_id \in Range(S.room.players) THEN [ok |-> FALSE, S |-> S]
    ELSE [ok |-> TRUE, S |-> [S EXCEPT !.room.players = Append(@, player_id)]]

\* GameRoom.remove_player: the first player with this id leaves the list
remove_player(S, player_id) ==
    IF player_id \notin Range(S.room.players) THEN [ok |-> FALSE, S |-> S]
    ELSE LET seats == S.room.players
             i == CHOOSE k \in 1..Len(seats) :
                     /\ seats[k] = player_id
                     /\ \A j \in 1..(k - 1) : seats[j] # player_id
         IN [ok |-> TRUE,
             S |-> [S EXCEPT !.room.players =
                       SubSeq(seats, 1, i - 1) \o SubSeq(seats, i + 1, Len(seats))]]

----------------------------------------------------------------------------
(* GameStore (game_store.py) *)

\* GameStore.get_game: whether game_id is in the index
get_game(S, game_id) == game_id \in S.active_games

\* The object GameStore.get_game returns, and GameService.get_game_state after
\* it: active_games.get(game_id) is the GameState the index holds; no copy of
\* it or of its Player objects is made
get_game_state(S, game_id) ==
    IF get_game(S, game_id) THEN "indexed" ELSE "none"

\* the assignments a caller makes on the object it was handed:
\* pot = 0, phase = FINISHED, players[0].chips = 0
Writes == {"pot", "phase", "chips"}

\* the program after the assignment w on the object: an assignment on the
\* indexed GameState (or on players[0] of it) is an assignment on the game
Assigned(S, object, w) ==
    IF object # "indexed" THEN S
    ELSE CASE w = "pot" -> [S EXCEPT !.game.pot = 0]
           [] w = "phase" -> [S EXCEPT !.game.phase = "finished"]
           [] w = "chips" ->
                 [S EXCEPT !.players[At(S.game.players, 0)].chips = 0]

\* GameStore.create_game, the room being able to start; room.game_id is the
\* uuid4 the GameState created in the room draws for its game_id
create_game(S) ==
    [S EXCEPT
        !.game = [game_id |-> S.room.game_id,
                  phase |-> "waiting",
                  players |-> S.room.players,
                  community_cards |-> <<>>,
                  pot |-> 0,
                  current_bet |-> 0,
                  min_raise |-> 0,
                  active_player_index |-> 0,
                  dealer_index |-> 0,
                  small_blind |-> SmallBlindDefault,
                  big_blind |-> BigBlindDefault,
                  action_history |-> <<>>,
                  winners |-> <<>>,
                  winning_hand |-> NoHand],
        !.active_games = @ \cup {S.room.game_id},
        !.room.current_game = S.room.game_id]

\* GameStore.get_room: whether room_id is in rooms
get_room(S, room_id) == room_id = RoomId /\ S.room.in_rooms

\* create_game creating in whatever room it is given
Store_create_game_Unchecked(S, room_id) == [ok |-> TRUE, S |-> create_game(S)]

\* GameStore.create_game: [ok, S], ok when a GameState is returned
Store_create_game(S, room_id) ==
    IF ~get_room(S, room_id) \/ ~can_start_game(S) THEN [ok |-> FALSE, S |-> S]
    ELSE [ok |-> TRUE, S |-> create_game(S)]

\* GameStore.add_player_to_room, _record_event included
Store_add_player_to_room(S, room_id, player_id) ==
    IF ~get_room(S, room_id) THEN [ok |-> FALSE, S |-> S]
    ELSE add_player(S, player_id)

\* GameStore.remove_player_from_room, _record_event included
Store_remove_player_from_room(S, room_id, player_id) ==
    IF ~get_room(S, room_id) THEN [ok |-> FALSE, S |-> S]
    ELSE remove_player(S, player_id)

\* GameStore.end_game
end_game(S, game_id, winners) ==
    IF ~get_game(S, game_id) THEN S
    ELSE [S EXCEPT
            !.game_history = Append(@, [game_id |-> game_id,
                                        winners |-> winners,
                                        winning_hand |-> NoHand,
                                        pot |-> S.game.pot,
                                        final_chips |->
                                            [p \in Range(S.game.players) |->
                                                S.players[p].chips]]),
            !.room.current_game = IF S.room.in_rooms THEN None ELSE @,
            !.active_games = @ \ {game_id}]

\* GameStore.create_room: the GameRoom it adds to rooms is another room than
\* the one followed, with an id of its own
create_room(S) == S

\* GameStore.delete_room
delete_room(S, room_id) ==
    IF ~get_room(S, room_id) THEN [ok |-> FALSE, S |-> S]
    ELSE [ok |-> TRUE, S |-> [S EXCEPT !.room.in_rooms = FALSE]]

\* GameStore.cleanup_inactive_rooms; old: created_at of the room is before
\* the cutoff the call computes from the clock
cleanup_inactive_rooms(S, old) ==
    IF S.room.in_rooms /\ old /\ S.room.players = <<>>
       /\ S.room.current_game = None
    THEN [S EXCEPT !.room.in_rooms = FALSE]
    ELSE S

----------------------------------------------------------------------------
(* GameService (game_service.py) *)

_validate_action(player, g, action_type, amount) ==
    IF player.status = "folded" THEN FALSE
    ELSE IF action_type = "call"
            /\ player.chips < g.current_bet - player.current_bet THEN FALSE
    ELSE IF action_type = "raise"
            /\ (amount = None \/ amount <= g.current_bet) THEN FALSE
    ELSE IF action_type = "raise" /\ player.chips < amount THEN FALSE
    ELSE IF action_type = "raise" /\ amount < g.min_raise THEN FALSE
    ELSE IF action_type = "all_in" /\ player.chips <= 0 THEN FALSE
    ELSE IF action_type = "check"
            /\ g.current_bet > player.current_bet THEN FALSE
    ELSE TRUE

\* GameService._apply_action: [ok, S]
_apply_action(S, pid, action_type, amount) ==
    LET player == S.players[pid]
        g == S.game
    IN
    IF action_type = "fold" THEN
        [ok |-> TRUE, S |-> [S EXCEPT !.players[pid].status = "folded"]]
    ELSE IF action_type = "check" THEN
        [ok |-> TRUE, S |-> S]
    ELSE IF action_type = "call" THEN
        LET call_amount == g.current_bet - player.current_bet IN
        IF player.chips < call_amount THEN [ok |-> FALSE, S |-> S]
        ELSE [ok |-> TRUE,
              S |-> [S EXCEPT !.players[pid].chips = @ - call_amount,
                              !.players[pid].current_bet = g.current_bet,
                              !.game.pot = @ + call_amount]]
    ELSE IF action_type = "raise" THEN
        IF amount = None \/ amount <= g.current_bet THEN [ok |-> FALSE, S |-> S]
        ELSE LET raise_amount == amount - player.current_bet IN
             IF player.chips < raise_amount THEN [ok |-> FALSE, S |-> S]
             ELSE [ok |-> TRUE,
                   S |-> [S EXCEPT !.players[pid].chips = @ - raise_amount,
                                   !.players[pid].current_bet = amount,
                                   !.game.pot = @ + raise_amount,
                                   !.game.current_bet = amount,
                                   \* computed from the current_bet just set
                                   !.game.min_raise = amount - amount]]
    ELSE IF action_type = "all_in" THEN
        LET all_in_amount == player.chips
            bet == player.current_bet + all_in_amount
        IN [ok |-> TRUE,
            S |-> [S EXCEPT !.players[pid].current_bet = bet,
                            !.game.pot = @ + all_in_amount,
                            !.players[pid].chips = 0,
                            !.players[pid].status = "all_in",
                            !.game.current_bet =
                                IF bet > g.current_bet THEN bet ELSE @,
                            !.game.min_raise =
                                IF bet > g.current_bet THEN bet - bet ELSE @]]
    ELSE [ok |-> FALSE, S |-> S]

\* the pot split among all the players of the game, the folded included
pay_pot_Everyone(S) ==
    LET n == Len(S.game.players)
    IN [S EXCEPT !.players =
                     [p \in DOMAIN @ |->
                         IF p \in Range(S.game.players)
                         THEN [@[p] EXCEPT !.chips = @ + (S.game.pot \div n)]
                         ELSE @[p]],
                 !.game.pot = 0]

\* the pot split among the players who have not folded, the remainder paid
\* to the first of them in seat order
pay_pot_Remainder(S) ==
    LET active_players == WithStatus(S, {"active", "all_in"})
        n == Len(active_players)
    IN [S EXCEPT !.players =
                     [p \in DOMAIN @ |->
                         IF p \in Range(active_players)
                         THEN [@[p] EXCEPT
                                 !.chips = @ + (S.game.pot \div n)
                                     + (IF p = active_players[1]
                                        THEN S.game.pot % n ELSE 0)]
                         ELSE @[p]],
                 !.game.pot = 0]

\* GameService._determine_winner up to `await self.store.end_game`: the pot
\* is paid out
pay_pot(S) ==
    LET active_players == WithStatus(S, {"active", "all_in"})
        n == Len(active_players)
        split_amount == S.game.pot \div n
    IN IF n = 1
       THEN [S EXCEPT !.players[active_players[1]].chips = @ + S.game.pot,
                      !.game.pot = 0]
       ELSE [S EXCEPT !.players =
                          [p \in DOMAIN @ |->
                              IF p \in Range(active_players)
                              THEN [@[p] EXCEPT !.chips = @ + split_amount]
                              ELSE @[p]],
                      !.game.pot = 0]

\* GameService._determine_winner
Service_determine_winner(S) ==
    end_game(pay_pot(S), S.game.game_id, WithStatus(S, {"active", "all_in"}))

\* GameService._advance_game_phase, its first lines: the bets of the players
\* and of the table are reset
reset_betting(S) ==
    [S EXCEPT
       !.players = [p \in DOMAIN @ |->
                       IF p \in Range(S.game.players)
                       THEN [@[p] EXCEPT !.current_bet = 0]
                       ELSE @[p]],
       !.game.current_bet = 0,
       !.game.min_raise = S.game.big_blind]

\* GameService._advance_game_phase
_advance_game_phase(S) ==
    LET reset == reset_betting(S)
        phase == S.game.phase
        active == {i \in 0..(NumPlayers(S.game) - 1) :
                      S.players[At(S.game.players, i)].status = "active"}
        first_active(T) ==
            IF active = {} THEN T
            ELSE [T EXCEPT !.game.active_player_index =
                              CHOOSE i \in active : \A j \in active : i <= j]
    IN
    IF phase = "river"
    THEN Service_determine_winner([reset EXCEPT !.game.phase = "showdown"])
    ELSE first_active(
            [reset EXCEPT !.game.phase =
                CASE phase = "pre_flop" -> "flop"
                  [] phase = "flop" -> "turn"
                  [] phase = "turn" -> "river"
                  [] OTHER -> @])

\* GameService._move_to_next_player
_move_to_next_player(S) ==
    LET g == S.game
        n == NumPlayers(g)
        idx(k) == (g.active_player_index + k) % n
        found == {k \in 1..(n - 1) :
                     S.players[At(g.players, idx(k))].status = "active"}
    IN IF found = {} THEN S
       ELSE [S EXCEPT !.game.active_player_index =
                         idx(CHOOSE k \in found : \A j \in found : k <= j)]

\* GameService._update_game_state
_update_game_state(S) ==
    LET active_players == WithStatus(S, {"active"})
        all_matched == \A i \in 1..Len(active_players) :
                          S.players[active_players[i]].current_bet
                              = S.game.current_bet
    IN IF all_matched /\ Len(active_players) > 1
       THEN _advance_game_phase(S)
       ELSE _move_to_next_player(S)

\* _update_game_state of S ends the game: the round is complete on the river,
\* so that it reaches _determine_winner and, there, `await
\* self.store.end_game` and its `async with self._get_game_lock(game_id)`
ReachesEndGame(S) ==
    LET active_players == WithStatus(S, {"active"})
    IN /\ \A i \in 1..Len(active_players) :
             S.players[active_players[i]].current_bet = S.game.current_bet
       /\ Len(active_players) > 1
       /\ S.game.phase = "river"

\* _update_game_state of such an S up to `await self.store.end_game`: the
\* bets reset, the phase SHOWDOWN, the pot paid out
update_before_end_game(S) ==
    pay_pot([reset_betting(S) EXCEPT !.game.phase = "showdown"])

Action(player_id, action_type, amount) ==
    [player_id |-> player_id, action_type |-> action_type, amount |-> amount]

\* GameService.make_player_action: [ok, S]
Service_make_player_action(S, game_id, player_id, action_type, amount) ==
    IF ~get_game(S, game_id) THEN [ok |-> FALSE, S |-> S]
    ELSE IF IndexOf(S.game, player_id) = None THEN [ok |-> FALSE, S |-> S]
    ELSE IF At(S.game.players, S.game.active_player_index) # player_id
         THEN [ok |-> FALSE, S |-> S]
    ELSE IF ~_validate_action(S.players[player_id], S.game, action_type, amount)
         THEN [ok |-> FALSE, S |-> S]
    ELSE LET applied == _apply_action(S, player_id, action_type, amount) IN
         IF ~applied.ok THEN [ok |-> FALSE, S |-> applied.S]
         ELSE LET recorded ==
                      [applied.S EXCEPT !.game.action_history =
                          Append(@, Action(player_id, action_type, amount))]
                  updated == _update_game_state(recorded)
              IN [ok |-> TRUE,
                  \* self.store.active_games[game_id] = game
                  S |-> [updated EXCEPT !.active_games = @ \cup {game_id}]]

\* Store_fold with the folding player's bet of the round handed back
Store_fold_Refunds(S, player_id) ==
    LET player == S.players[player_id]
    IN [ok |-> TRUE,
        S |-> [S EXCEPT !.players[player_id].status = "folded",
                        !.players[player_id].chips = @ + player.current_bet,
                        !.game.pot = @ - player.current_bet]]

\* GameStore.make_player_action, case "fold"
Store_fold(S, player_id) ==
    [ok |-> TRUE, S |-> [S EXCEPT !.players[player_id].status = "folded"]]

\* Store_call with the chips moved before the check of what the player holds
Store_call_DebitsFirst(S, player_id) ==
    LET player == S.players[player_id]
        call_amount == S.game.current_bet - player.current_bet
        moved == [S EXCEPT !.players[player_id].chips = @ - call_amount,
                           !.players[player_id].current_bet = S.game.current_bet,
                           !.game.pot = @ + call_amount]
    IN [ok |-> player.chips >= call_amount, S |-> moved]

\* Store_call with a call the chips do not cover made partial: the player
\* puts in what is left
Store_call_Partial(S, player_id) ==
    LET player == S.players[player_id]
        call_amount == S.game.current_bet - player.current_bet
        paid == IF player.chips >= call_amount THEN call_amount
                ELSE player.chips
    IN [ok |-> TRUE,
        S |-> [S EXCEPT !.players[player_id].chips = @ - paid,
                        !.players[player_id].current_bet = @ + paid,
                        !.game.pot = @ + paid]]

\* GameStore.make_player_action, case "call"
Store_call(S, player_id) ==
    LET player == S.players[player_id]
        call_amount == S.game.current_bet - player.current_bet
    IN IF player.chips >= call_amount
       THEN [ok |-> TRUE,
             S |-> [S EXCEPT !.players[player_id].chips = @ - call_amount,
                             !.players[player_id].current_bet = S.game.current_bet,
                             !.game.pot = @ + call_amount]]
       ELSE [ok |-> FALSE, S |-> S]

\* GameStore.make_player_action, case "raise"
Store_raise(S, player_id, amount) ==
    LET player == S.players[player_id]
        g == S.game
        total_needed == g.current_bet - player.current_bet + amount
    IN IF amount = None \/ amount < g.min_raise THEN [ok |-> FALSE, S |-> S]
       ELSE IF player.chips >= total_needed
       THEN [ok |-> TRUE,
             S |-> [S EXCEPT !.players[player_id].chips = @ - total_needed,
                             !.players[player_id].current_bet = g.current_bet + amount,
                             !.game.pot = @ + total_needed,
                             !.game.current_bet = g.current_bet + amount,
                             !.game.min_raise = amount]]
       ELSE [ok |-> FALSE, S |-> S]

\* GameStore.make_player_action, case "all_in"
Store_all_in(S, player_id) ==
    LET player == S.players[player_id]
        bet == player.current_bet + player.chips
    IN [ok |-> TRUE,
        S |-> [S EXCEPT !.players[player_id].current_bet = bet,
                        !.game.pot = @ + player.chips,
                        !.players[player_id].chips = 0,
                        !.players[player_id].status = "all_in",
                        !.game.current_bet =
                            IF bet > S.game.current_bet THEN bet ELSE @]]

\* GameStore.make_player_action: [ok, S]
Store_make_player_action(S, game_id, player_id, action_type, amount) ==
    IF ~get_game(S, game_id) THEN [ok |-> FALSE, S |-> S]
    ELSE IF IndexOf(S.game, player_id) = None THEN [ok |-> FALSE, S |-> S]
    ELSE IF S.players[player_id].status # "active" THEN [ok |-> FALSE, S |-> S]
    ELSE
    LET executed ==
            CASE action_type = "fold" -> Store_fold(S, player_id)
              [] action_type = "call" -> Store_call(S, player_id)
              [] action_type = "raise" -> Store_raise(S, player_id, amount)
              [] action_type = "all_in" -> Store_all_in(S, player_id)
              [] OTHER -> [ok |-> FALSE, S |-> S]
    IN IF ~executed.ok THEN [ok |-> FALSE, S |-> executed.S]
       ELSE [ok |-> TRUE,
             S |-> [executed.S EXCEPT
                      !.game.action_history =
                          Append(@, Action(player_id, action_type, amount)),
                      !.game.active_player_index =
                          (@ + 1) % NumPlayers(S.game)]]

----------------------------------------------------------------------------
(* PokerEngine (poker_engine.py) *)

\* PokerEngine.deal_community_cards: [cards, deck]; k is the shuffle drawn
\* when the deck has to be rebuilt
deal_community_cards(d, count, k) ==
    PopN(IF d.left < count THEN DeckOf(k, DeckSize) ELSE d, count)

\* PokerEngine.deal_cards: [hands, deck], one hand of two cards per player
deal_cards(d, num_players, k) ==
    LET popped == PopN(IF d.left < num_players * 2 THEN DeckOf(k, DeckSize) ELSE d,
                       num_players * 2)
    IN [hands |-> [i \in 1..num_players |->
                      <<popped.cards[2 * i - 1], popped.cards[2 * i]>>],
        deck |-> popped.deck]

\* _setup_blinds with each blind posted whole, whatever the player holds
_setup_blinds_WholeBlinds(S) ==
    LET g == S.game
        n == NumPlayers(g)
        sb == At(g.players, g.dealer_index)
        bb == At(g.players, (g.dealer_index + 1) % n)
    IN IF n < 2 THEN S
       ELSE [S EXCEPT !.players[sb].current_bet = g.small_blind,
                      !.players[sb].chips = @ - g.small_blind,
                      !.players[bb].current_bet = g.big_blind,
                      !.players[bb].chips = @ - g.big_blind,
                      !.game.pot = @ + g.small_blind + g.big_blind,
                      !.game.current_bet = g.big_blind,
                      !.game.min_raise = g.big_blind]

\* PokerEngine._setup_blinds
_setup_blinds(S) ==
    LET g == S.game
        n == NumPlayers(g)
        sb == At(g.players, g.dealer_index)
        bb == At(g.players, (g.dealer_index + 1) % n)
        Min(a, b) == IF a < b THEN a ELSE b
        sb_amount == Min(g.small_blind, S.players[sb].chips)
        small == [S EXCEPT !.players[sb].current_bet = sb_amount,
                           !.players[sb].chips = @ - sb_amount,
                           !.game.pot = @ + sb_amount]
        bb_amount == Min(g.big_blind, small.players[bb].chips)
    IN IF n < 2 THEN S
       ELSE [small EXCEPT !.players[bb].current_bet = bb_amount,
                          !.players[bb].chips = @ - bb_amount,
                          !.game.pot = @ + bb_amount,
                          !.game.current_bet = bb_amount,
                          !.game.min_raise = bb_amount]

\* PokerEngine.start_new_game, the room being able to start; k is the shuffle
start_new_game(S, k) ==
    LET created == create_game(S)
        n == NumPlayers(created.game)
        dealt == deal_cards(DeckOf(k, DeckSize), n, k)
        seated == [created EXCEPT
                     !.deck = dealt.deck,
                     !.players =
                         [p \in DOMAIN @ |->
                             IF p \in Range(created.game.players)
                             THEN [@[p] EXCEPT
                                     !.hole_cards =
                                         dealt.hands[IndexOf(created.game, p) + 1],
                                     !.current_bet = 0,
                                     !.status = "active"]
                             ELSE @[p]]]
    IN [_setup_blinds(seated) EXCEPT !.game.phase = "pre_flop"]

\* the hands PokerEngine._determine_winner picks as winners among hands (a
\* sequence of HandRank): those whose value equals the greatest value
BestHands(hands) ==
    {i \in 1..Len(hands) : \A j \in 1..Len(hands) : hands[j].value <= hands[i].value}

\* PokerEngine._determine_winner: [raised, S]; max() of no hands raises
Engine_determine_winner(S) ==
    LET active_players == WithStatus(S, {"active"})
        \* with the hand of every active player evaluated (once each)
        shown(player_hands) ==
            LET hand(p) == (CHOOSE h \in player_hands : h[1] = p)[2]
                best_hand_value == CHOOSE v \in {h[2].value : h \in player_hands} :
                                       \A h \in player_hands : h[2].value <= v
                best(p) == hand(p).value = best_hand_value
            IN [S EXCEPT
                  !.game.winners = SelectSeq(active_players, best),
                  !.game.winning_hand = hand(active_players[1])]
    IN IF Len(active_players) = 1
       THEN [raised |-> FALSE, S |-> [S EXCEPT !.game.winners = active_players]]
       ELSE IF Len(active_players) = 0
       THEN [raised |-> TRUE, S |-> S]
       ELSE [raised |-> FALSE,
             S |-> The({shown(player_hands) :
                          player_hands \in
                              {{<<p, evaluate_hand(S.players[p].hole_cards,
                                                   S.game.community_cards)>> :
                                    p \in Range(active_players)}}})]

\* PokerEngine.advance_game_phase; k is the shuffle drawn if the deck is rebuilt
advance_game_phase(S, k) ==
    LET g == S.game
        deal(count) == deal_community_cards(S.deck, count, k)
        reset(T) == [T EXCEPT
                       !.game.current_bet = 0,
                       !.game.min_raise = T.game.big_blind,
                       !.players = [p \in DOMAIN @ |->
                                       IF p \in Range(T.game.players)
                                       THEN [@[p] EXCEPT !.current_bet = 0]
                                       ELSE @[p]]]
        shown == Engine_determine_winner([S EXCEPT !.game.phase = "showdown"])
    IN CASE g.phase = "pre_flop" ->
              reset([S EXCEPT !.game.phase = "flop",
                              !.game.community_cards = deal(3).cards,
                              !.deck = deal(3).deck])
         [] g.phase = "flop" ->
              reset([S EXCEPT !.game.phase = "turn",
                              !.game.community_cards = @ \o deal(1).cards,
                              !.deck = deal(1).deck])
         [] g.phase = "turn" ->
              reset([S EXCEPT !.game.phase = "river",
                              !.game.community_cards = @ \o deal(1).cards,
                              !.deck = deal(1).deck])
         [] g.phase = "river" ->
              IF shown.raised THEN shown.S ELSE reset(shown.S)
         [] OTHER -> reset(S)

----------------------------------------------------------------------------
(* The operations, each a whole call *)

Seatings == { <<"A", "B">>, <<"A", "B", "C">> }

\* the rooms create_game is asked about: empty, a human alone, agents alone,
\* and the two seatings that can start
RoomSeatings == { <<>>, <<"A">>, <<"B">>, <<"B", "C">> } \cup Seatings

\* what is kept of the last call: the operation, whether it returned success
\* and whether the submitting player was the player at active_player_index
Call(op, ok, in_turn) == [op |-> op, ok |-> ok, in_turn |-> in_turn]

\* player_id is the player to act of the game in S
InTurn(S, player_id) ==
    IF S.game = NoGame THEN FALSE
    ELSE At(S.game.players, S.game.active_player_index) = player_id

\* the amounts an action of this type is submitted with
AmountsOf(action_type) ==
    IF action_type = "raise" THEN Amounts \cup {None} ELSE {None}

\* the state becomes S; round_mark follows the phase and the table bet
Become(S) ==
    /\ players' = S.players
    /\ room' = S.room
    /\ game' = S.game
    /\ active_games' = S.active_games
    /\ game_history' = S.game_history
    /\ deck' = S.deck
    /\ round_mark' =
          IF S.game = NoGame THEN round_mark
          ELSE IF S.game.phase # game.phase
               THEN Len(S.game.action_history) + 1
          ELSE IF S.game.current_bet > game.current_bet
               THEN Len(S.game.action_history)
          ELSE round_mark
    /\ buy_in' = buy_in
    /\ UNCHANGED <<later, other, evaluation>>

\* a Player as add_player_to_room receives it
NewPlayer(chips, is_human) ==
    [chips |-> chips, current_bet |-> 0, status |-> "active",
     hole_cards |-> <<>>, is_human |-> is_human, is_agent |-> ~is_human]

\* the second room: two players seated with 100 chips each, no game yet
OtherRoom ==
    [players |-> [p \in OtherPlayerIds |-> NewPlayer(100, p = "D")],
     room |-> [players |-> <<"D", "E">>, current_game |-> None,
               game_id |-> OtherGameId, max_players |-> MaxPlayersDefault,
               in_rooms |-> TRUE],
     game |-> NoGame]

\* no cards handed to the evaluator
NoEvaluation == [hole_cards |-> <<>>, community_cards |-> <<>>, rank |-> NoHand]

\* the program after construction, the rooms filled: the players of the
\* first room, created for max_players, hold the chips st and those in seats
\* are seated
SeatedIn(st, seats, max_players) ==
    /\ players = [p \in PlayerIds |->
                     NewPlayer(st[CASE p = "A" -> 1 [] p = "B" -> 2 [] OTHER -> 3],
                               p = "A")]
    /\ room = [players |-> seats, current_game |-> None, game_id |-> GameId,
               max_players |-> max_players, in_rooms |-> TRUE]
    /\ other = OtherRoom
    /\ game = NoGame
    /\ later = <<>>
    /\ active_games = {}
    /\ game_history = <<>>
    /\ deck = _initialize_deck
    /\ last_call = Call("init", TRUE, FALSE)
    /\ round_mark = 1
    /\ buy_in = [p \in PlayerIds |-> players[p].chips]
    /\ tasks = [t \in TaskIds |-> IdleTask]
    /\ running = None
    /\ game_lock = None
    /\ room_lock = None
    /\ store_lock = None
    /\ lock_calls = 0

\* the same in a room created with the default max_players
Seated(st, seats) == SeatedIn(st, seats, MaxPlayersDefault)

Init ==
    /\ \E st \in Stacks, seats \in Seatings : Seated(st, seats)
    /\ evaluation = NoEvaluation

\* more calls of make_player_action are followed while action_history is
\* shorter than bound
Followed(bound) ==
    IF game = NoGame THEN TRUE ELSE Len(game.action_history) < bound

\* the call runs from its first line to its return with no other task of the
\* event loop in between
Sequential ==
    /\ running = None
    /\ UNCHANGED <<tasks, running, game_lock, room_lock,
                   store_lock, lock_calls>>

\* the games created in the room so far
GamesCreated == (IF game = NoGame THEN 0 ELSE 1) + Len(later)

\* the uuid4 the next GameState created in the room draws for its game_id
NewGameId ==
    IF game = NoGame THEN room.game_id ELSE OtherGameId + Len(later) + 1

\* the program as a call that creates a game in the room meets it: neither
\* create_game nor start_new_game looks at the games the room has
Creating == [State EXCEPT !.room.game_id = NewGameId]

\* the program becomes S, in which a call has created a game: the first game
\* of the room is the one followed as `game`; a game created when the room
\* has one joins `later`, and what the call did to the Player objects, the
\* room, the index and the deck is done to those of the game followed too
BecomeCreated(S) ==
    IF game = NoGame THEN Become([S EXCEPT !.room.game_id = room.game_id])
    ELSE /\ players' = S.players
         /\ room' = [S.room EXCEPT !.game_id = room.game_id]
         /\ later' = Append(later, S.game)
         /\ active_games' = S.active_games
         /\ game_history' = S.game_history
         /\ deck' = S.deck
         /\ UNCHANGED <<game, round_mark, buy_in, other, evaluation>>

\* PokerEngine.start_new_game of the room, awaited by its caller, whether or
\* not the room has a game
StartNewGame ==
    /\ GamesCreated < MaxHandsStarted
    /\ get_room(State, RoomId)
    /\ can_start_game(State)
    /\ \E k \in ShuffleKeys : BecomeCreated(start_new_game(Creating, k))
    /\ last_call' = Call("start_new_game", TRUE, FALSE)
    /\ Sequential

\* GameStore.create_game alone: the game waits, nothing dealt or posted
CreateGame ==
    /\ GamesCreated < MaxHandsStarted
    /\ get_room(State, RoomId)
    /\ can_start_game(State)
    /\ BecomeCreated(create_game(Creating))
    /\ last_call' = Call("create_game", TRUE, FALSE)
    /\ Sequential

\* GameStore.create_game called with a room id, whatever the room holds
CreateGameIn ==
    /\ GamesCreated < MaxHandsStarted
    /\ \E room_id \in RoomIds :
          LET r == Store_create_game(Creating, room_id)
          IN /\ IF r.ok THEN BecomeCreated(r.S) ELSE Become(State)
             /\ last_call' = Call(IF get_room(State, room_id) THEN "create_game"
                                  ELSE "create_game.no_room", r.ok, FALSE)
    /\ Sequential

\* the game ids drawn so far: those indexed and those of the results
Drawn == active_games \cup {game_history[i].game_id : i \in 1..Len(game_history)}

\* GameStore.create_game called whether or not the room has a game: the new
\* GameState draws a game_id no game has had
CreateGameAgain ==
    /\ GameIds \ Drawn # {}
    /\ \E id \in {i \in GameIds \ Drawn : \A j \in GameIds \ Drawn : i <= j} :
          LET r == Store_create_game([State EXCEPT !.room.game_id = id], RoomId)
          IN /\ Become(IF r.ok THEN r.S ELSE State)
             /\ last_call' = Call("create_game", r.ok, FALSE)
    /\ Sequential

\* GameStore.end_game called with a game id, the winners left empty
EndGame ==
    /\ \E game_id \in GameIds :
          /\ Become(end_game(State, game_id, <<>>))
          /\ last_call' = Call("end_game", get_game(State, game_id), FALSE)
    /\ Sequential

\* GameStore.add_player_to_room called with a room id and a Player
AddPlayer ==
    /\ \E room_id \in RoomIds, player_id \in PlayerIds :
          LET r == Store_add_player_to_room(State, room_id, player_id)
          IN /\ Become(r.S)
             /\ last_call' = Call(IF get_room(State, room_id)
                                  THEN "add_player_to_room"
                                  ELSE "add_player_to_room.no_room", r.ok, FALSE)
    /\ Sequential

\* GameStore.remove_player_from_room called with a room id and a player id
RemovePlayer ==
    /\ \E room_id \in RoomIds, player_id \in PlayerIds :
          LET r == Store_remove_player_from_room(State, room_id, player_id)
          IN /\ Become(r.S)
             /\ last_call' = Call(IF get_room(State, room_id)
                                  THEN "remove_player_from_room"
                                  ELSE "remove_player_from_room.no_room",
                                  r.ok, FALSE)
    /\ Sequential

\* GameService.make_player_action called with the arguments the method takes
ServiceAction(bound) ==
    /\ Followed(bound)
    /\ \E player_id \in PlayerIds, action_type \in ActionTypes :
       \E amount \in AmountsOf(action_type) :
          LET r == Service_make_player_action(State, GameId, player_id,
                                              action_type, amount)
          IN /\ Become(r.S)
             /\ last_call' = Call("service", r.ok, InTurn(State, player_id))
    /\ Sequential

\* GameStore.make_player_action called with the arguments the method takes;
\* the handlers of main.py, which refuse a RAISE or CALL without an amount
\* before they reach this call, are not part of the model
StoreAction(bound) ==
    /\ Followed(bound)
    /\ \E player_id \in PlayerIds, action_type \in ActionTypes :
       \E amount \in AmountsOf(action_type) :
          LET r == Store_make_player_action(State, GameId, player_id,
                                            action_type, amount)
          IN /\ Become(r.S)
             /\ last_call' = Call("store", r.ok, InTurn(State, player_id))
    /\ Sequential

\* the program as a call on the i-th later game of the room sees it: that
\* GameState, over the Player objects of the room
LaterState(i) == [State EXCEPT !.game = later[i]]

\* the i-th later game becomes that of S, and the Player objects, the room,
\* the index and the deck with it
BecomeLater(i, S) ==
    /\ later' = [later EXCEPT ![i] = S.game]
    /\ players' = S.players
    /\ room' = S.room
    /\ active_games' = S.active_games
    /\ game_history' = S.game_history
    /\ deck' = S.deck
    /\ UNCHANGED <<game, round_mark, buy_in, other, evaluation>>

\* GameService.make_player_action called on a later game of the room
ServiceActionLater(bound) ==
    /\ \E i \in 1..Len(later) :
          /\ Len(later[i].action_history) < bound
          /\ \E player_id \in PlayerIds, action_type \in ActionTypes :
             \E amount \in AmountsOf(action_type) :
                LET S == LaterState(i)
                    r == Service_make_player_action(S, later[i].game_id,
                                                    player_id, action_type,
                                                    amount)
                IN /\ BecomeLater(i, r.S)
                   /\ last_call' = Call("later.service", r.ok,
                                        InTurn(S, player_id))
    /\ Sequential

\* GameStore.make_player_action called on a later game of the room
StoreActionLater(bound) ==
    /\ \E i \in 1..Len(later) :
          /\ Len(later[i].action_history) < bound
          /\ \E player_id \in PlayerIds, action_type \in ActionTypes :
             \E amount \in AmountsOf(action_type) :
                LET S == LaterState(i)
                    r == Store_make_player_action(S, later[i].game_id,
                                                  player_id, action_type,
                                                  amount)
                IN /\ BecomeLater(i, r.S)
                   /\ last_call' = Call("later.store", r.ok,
                                        InTurn(S, player_id))
    /\ Sequential

EngineAdvance ==
    /\ game # NoGame
    /\ \E k \in ShuffleKeys : Become(advance_game_phase(State, k))
    /\ last_call' = Call("advance_game_phase", TRUE, FALSE)
    /\ Sequential

\* the second room as the operations see it: its own players, room and game,
\* in the one GameStore and on the one PokerEngine (poker_engine.py:409)
OtherState == [players |-> other.players, room |-> other.room,
               game |-> other.game, active_games |-> active_games,
               game_history |-> game_history, deck |-> deck]

\* the second room becomes that of S, and the store and the deck with it
BecomeOther(S) ==
    /\ other' = [players |-> S.players, room |-> S.room, game |-> S.game]
    /\ active_games' = S.active_games
    /\ game_history' = S.game_history
    /\ deck' = S.deck
    /\ UNCHANGED <<players, room, game, round_mark, buy_in, later, evaluation>>

\* PokerEngine.start_new_game for the second room
StartOtherGame ==
    /\ other.game = NoGame
    /\ can_start_game(OtherState)
    /\ \E k \in ShuffleKeys : BecomeOther(start_new_game(OtherState, k))
    /\ last_call' = Call("other.start_new_game", TRUE, FALSE)
    /\ Sequential

\* PokerEngine.advance_game_phase on the game of the second room
AdvanceOtherGame ==
    /\ other.game # NoGame
    /\ \E k \in ShuffleKeys : BecomeOther(advance_game_phase(OtherState, k))
    /\ last_call' = Call("other.advance_game_phase", TRUE, FALSE)
    /\ Sequential

\* a caller of get_game / get_game_state assigns a field of what it was given
CallerWrites ==
    /\ get_game(State, GameId)
    /\ \E w \in Writes :
          Become(Assigned(State, get_game_state(State, GameId), w))
    /\ last_call' = Call("caller_write", TRUE, FALSE)
    /\ Sequential

\* the cards of base in every order
Orderings(base) ==
    {[i \in 1..Len(base) |-> base[f[i]]] : f \in Permutations(1..Len(base))}

\* the calls of evaluate_hand that are followed
EvalInputs ==
    {[hole_cards |-> SubSeq(q, 1, n),
      community_cards |-> SubSeq(q, n + 1, Len(q)),
      rank |-> NoHand] :
        q \in UNION {Orderings(base) : base \in EvalCardSets}, n \in HoleCounts}

\* PokerEngine.evaluate_hand is called with the cards and returns
Evaluate ==
    /\ evaluation.rank = NoHand
    /\ evaluation.hole_cards \o evaluation.community_cards # <<>>
    /\ evaluation' =
          [evaluation EXCEPT !.rank = evaluate_hand(evaluation.hole_cards,
                                                    evaluation.community_cards)]
    /\ last_call' = Call("evaluate_hand", TRUE, FALSE)
    /\ UNCHANGED <<players, room, game, active_games, game_history, deck,
                   round_mark, buy_in, tasks, running, game_lock, room_lock,
                   store_lock, lock_calls, later, other>>

\* A hand played through both action paths
Next ==
    \/ StartNewGame
    \/ CreateGame
    \/ ServiceAction(MaxActions)
    \/ StoreAction(MaxActions)

Spec == Init /\ [][Next]_vars

\* A hand played to its end through GameService
NextService ==
    \/ StartNewGame
    \/ ServiceAction(MaxServiceActions)

SpecService == Init /\ [][NextService]_vars

\* the player to act submits an action that GameService accepts
LegalAction(bound) ==
    /\ game # NoGame
    /\ Followed(bound)
    /\ \E action_type \in ActionTypes :
       \E amount \in AmountsOf(action_type) :
          LET player_id == At(game.players, game.active_player_index)
              r == Service_make_player_action(State, GameId, player_id,
                                              action_type, amount)
          IN /\ r.ok
             /\ Become(r.S)
             /\ last_call' = Call("service", TRUE, TRUE)
    /\ Sequential

\* A hand played through GameService by the player to act alone
NextProgress ==
    \/ StartNewGame
    \/ LegalAction(MaxProgressActions)

SpecProgress == Init /\ [][NextProgress]_vars

\* the same, the player to act submitting an accepted action whenever there
\* is one
FairProgress == SpecProgress /\ WF_vars(LegalAction(MaxProgressActions))

\* A hand whose phases are advanced by the PokerEngine
NextEngine ==
    \/ StartNewGame
    \/ EngineAdvance
    \/ ServiceAction(MaxEngineActions)

SpecEngine == Init /\ [][NextEngine]_vars

\* Two games on the one PokerEngine, one in each of two rooms, their calls in
\* any order
NextGames ==
    \/ (game = NoGame /\ StartNewGame)
    \/ EngineAdvance
    \/ StartOtherGame
    \/ AdvanceOtherGame

SpecGames == Init /\ [][NextGames]_vars

\* The hand evaluator called on its own
InitEval ==
    /\ Seated(<<100, 100, 100>>, <<"A", "B">>)
    /\ evaluation \in EvalInputs

NextEval == Evaluate

SpecEval == InitEval /\ [][NextEval]_vars

\* A hand whose GameState is also read, and written to, by callers of get_game
NextSnapshot ==
    \/ StartNewGame
    \/ StoreAction(MaxSnapshotActions)
    \/ CallerWrites

SpecSnapshot == Init /\ [][NextSnapshot]_vars

\* The one hand of a room acted on through both paths, its phases also
\* advanced by the engine
NextHand ==
    \/ (game = NoGame /\ StartNewGame)
    \/ EngineAdvance
    \/ ServiceAction(MaxHandActions)
    \/ StoreAction(MaxHandActions)

SpecHand == Init /\ [][NextHand]_vars

\* the chips and the seats of the room in which two hands are started
RoomHandStacks == { <<100, 100, 100>> }
RoomHandSeatings == { <<"A", "B">> }

\* Two hands started in one room of two players, each acted on through both
\* paths
InitRoomHands ==
    /\ \E st \in RoomHandStacks, seats \in RoomHandSeatings : Seated(st, seats)
    /\ evaluation = NoEvaluation

NextRoomHands ==
    \/ StartNewGame
    \/ ServiceAction(MaxRoomHandActions)
    \/ StoreAction(MaxRoomHandActions)
    \/ ServiceActionLater(MaxRoomHandActions)
    \/ StoreActionLater(MaxRoomHandActions)

SpecRoomHands == InitRoomHands /\ [][NextRoomHands]_vars

\* A hand played through both action paths, the big blind short of chips
InitBlinds ==
    /\ \E st \in ShortStacks, seats \in Seatings : Seated(st, seats)
    /\ evaluation = NoEvaluation

SpecBlinds == InitBlinds /\ [][Next]_vars

\* Games asked for in rooms of every kind, and the games created acted on
InitRooms ==
    /\ \E st \in Stacks, seats \in RoomSeatings : Seated(st, seats)
    /\ evaluation = NoEvaluation

NextRooms ==
    \/ CreateGameIn
    \/ StoreAction(MaxRoomActions)

SpecRooms == InitRooms /\ [][NextRooms]_vars

\* Players joining and leaving a room created empty, for two or three players
InitMembers ==
    /\ \E st \in Stacks, max_players \in MaxPlayersOptions :
          SeatedIn(st, <<>>, max_players)
    /\ evaluation = NoEvaluation

NextMembers ==
    \/ AddPlayer
    \/ RemovePlayer

SpecMembers == InitMembers /\ [][NextMembers]_vars

\* Games created and ended in one room, no hand started in any of them: the
\* games of the room differ in game_id only, so that `game` stands for each
NextIndex ==
    \/ CreateGameAgain
    \/ EndGame

SpecIndex == Init /\ [][NextIndex]_vars

----------------------------------------------------------------------------
(* make_player_action as tasks of the asyncio event loop, one step per     *)
(* stretch of code between two awaits                                      *)

\* every await hands the event loop to the other tasks
Suspends_Always(blocked) == TRUE

\* `await x` hands the event loop to the other tasks only when x has to wait:
\* a coroutine that meets no held lock runs through to its return
Suspends(blocked) == blocked

\* the next step of task t, the program in state S, waits for the game lock
Waits(task, S, lock, t) ==
    /\ lock \notin {None, t}
    /\ \/ task.pc = "start" /\ task.path = "store"
       \/ task.pc = "paid"

\* the event loop can run the next step of task t
MayRun(t) ==
    /\ running \in {None, t}
    /\ ~Waits(tasks[t], State, game_lock, t)

\* what a task has read of the game: the GameState and its Player objects
Snapshot(S) == [game |-> S.game, players |-> S.players]

\* task t goes on to the next stretch of its call
GoOn(t, task, S, lock) ==
    /\ tasks' = [tasks EXCEPT ![t] = task]
    /\ running' = IF Suspends(Waits(task, S, lock, t)) THEN None ELSE t
    /\ last_call' = last_call

\* the call of task t returns ok
Return(t, ok, in_turn) ==
    /\ tasks' = [tasks EXCEPT ![t] = IdleTask]
    /\ running' = None
    /\ last_call' = Call(tasks[t].path, ok, in_turn)

\* a call of make_player_action on the game of the hand, of GameService or
\* of GameStore itself, is made as a task of the event loop, the first one
\* free; the arguments are those the method takes, amount None included
Submit(t) ==
    /\ game # NoGame
    /\ running = None
    /\ tasks[t].pc = "idle"
    /\ \A u \in TaskIds : u < t => tasks[u].pc # "idle"
    /\ Followed(MaxTaskActions)
    /\ \E path \in {"service", "store"}, player_id \in PlayerIds,
          action_type \in TaskActionTypes :
       \E amount \in AmountsOf(action_type) :
          tasks' = [tasks EXCEPT ![t] =
                       [IdleTask EXCEPT !.pc = "start",
                                        !.path = path,
                                        !.player_id = player_id,
                                        !.action_type = action_type,
                                        !.amount = amount]]
    /\ last_call' = Call("submit", TRUE, FALSE)
    /\ UNCHANGED <<players, room, game, active_games, game_history, deck,
                   round_mark, buy_in, running, game_lock, room_lock,
                   store_lock, lock_calls, later, other, evaluation>>

\* GameService.make_player_action up to `await self._apply_action`
ServiceValidate(t) ==
    /\ tasks[t].pc = "start"
    /\ tasks[t].path = "service"
    /\ MayRun(t)
    /\ LET task == tasks[t]
           S == State
           valid ==
               /\ get_game(S, GameId)
               /\ IndexOf(S.game, task.player_id) # None
               /\ At(S.game.players, S.game.active_player_index) = task.player_id
               /\ _validate_action(S.players[task.player_id], S.game,
                                   task.action_type, task.amount)
       IN IF valid
          THEN GoOn(t, [task EXCEPT !.pc = "validated",
                                    !.in_turn = TRUE,
                                    !.base = Snapshot(S)], S, game_lock)
          ELSE Return(t, FALSE, InTurn(S, task.player_id))
    /\ UNCHANGED <<players, room, game, active_games, game_history, deck,
                   round_mark, buy_in, game_lock, room_lock,
                   store_lock, lock_calls, later, other, evaluation>>

\* `await self._apply_action` and the record of the action, up to
\* `await self._update_game_state`
ServiceApply(t) ==
    /\ tasks[t].pc = "validated"
    /\ MayRun(t)
    /\ LET task == tasks[t]
           applied == _apply_action(State, task.player_id, task.action_type,
                                    task.amount)
           recorded == [applied.S EXCEPT !.game.action_history =
                           Append(@, Action(task.player_id, task.action_type,
                                            task.amount))]
       IN IF applied.ok
          THEN /\ Become(recorded)
               /\ GoOn(t, [task EXCEPT !.pc = "applied",
                                       !.base = Snapshot(recorded)],
                       recorded, game_lock)
          ELSE /\ Become(applied.S)
               /\ Return(t, FALSE, task.in_turn)
    /\ UNCHANGED <<game_lock, room_lock, store_lock, lock_calls>>

\* `await self._update_game_state`: when the game goes on, the write to the
\* store and the return; when it ends, the showdown and the payout of
\* _determine_winner up to `await self.store.end_game`, which is handed the
\* winners and asks for the game lock
ServiceUpdate(t) ==
    /\ tasks[t].pc = "applied"
    /\ MayRun(t)
    /\ LET task == tasks[t]
           S == State
       IN IF ReachesEndGame(S)
          THEN LET paid == update_before_end_game(S)
               IN /\ Become(paid)
                  /\ GoOn(t, [task EXCEPT
                                 !.pc = "paid",
                                 !.base = Snapshot(paid),
                                 !.winners =
                                     WithStatus(S, {"active", "all_in"})],
                          paid, game_lock)
          ELSE /\ Become([_update_game_state(S)
                             EXCEPT !.active_games = @ \cup {GameId}])
               /\ Return(t, TRUE, task.in_turn)
    /\ UNCHANGED <<game_lock, room_lock, store_lock, lock_calls>>

\* GameStore.end_game awaited by _determine_winner: the game lock taken, the
\* body, _record_event and its store lock included, the lock given back;
\* then the write to the store and the return of make_player_action
ServiceEnd(t) ==
    /\ tasks[t].pc = "paid"
    /\ MayRun(t)
    /\ LET ended == end_game(State, GameId, tasks[t].winners)
       IN Become([ended EXCEPT !.active_games = @ \cup {GameId}])
    /\ Return(t, TRUE, tasks[t].in_turn)
    /\ UNCHANGED <<game_lock, room_lock, store_lock, lock_calls>>

\* GameStore.make_player_action: `async with self._get_game_lock(game_id)`
StoreAcquire(t) ==
    /\ tasks[t].pc = "start"
    /\ tasks[t].path = "store"
    /\ MayRun(t)
    /\ game_lock' = t
    /\ UNCHANGED <<room_lock, store_lock, lock_calls>>
    /\ GoOn(t, [tasks[t] EXCEPT !.pc = "locked",
                                !.in_turn = InTurn(State, tasks[t].player_id),
                                !.base = Snapshot(State)], State, t)
    /\ UNCHANGED <<players, room, game, active_games, game_history, deck,
                   round_mark, buy_in, later, other, evaluation>>

\* the body under the lock, _record_event and its store lock included, and
\* the release of the game lock on the way out
StoreBody(t) ==
    /\ tasks[t].pc = "locked"
    /\ MayRun(t)
    /\ LET task == tasks[t]
           r == Store_make_player_action(State, GameId, task.player_id,
                                         task.action_type, task.amount)
       IN /\ Become(r.S)
          /\ Return(t, r.ok, task.in_turn)
    /\ game_lock' = None
    /\ UNCHANGED <<room_lock, store_lock, lock_calls>>

\* The one hand of a room, its actions concurrent calls of
\* make_player_action, its phases also advanced by the engine up to the river
NextTasks ==
    \/ (game = NoGame /\ StartNewGame)
    \/ (game # NoGame /\ game.phase \in {"pre_flop", "flop", "turn"}
            /\ EngineAdvance)
    \/ \E t \in TaskIds : Submit(t)
    \/ \E t \in TaskIds : ServiceValidate(t)
    \/ \E t \in TaskIds : ServiceApply(t)
    \/ \E t \in TaskIds : ServiceUpdate(t)
    \/ \E t \in TaskIds : ServiceEnd(t)
    \/ \E t \in TaskIds : StoreAcquire(t)
    \/ \E t \in TaskIds : StoreBody(t)

SpecTasks == Init /\ [][NextTasks]_vars

\* the call of task t is cancelled (its caller is gone) while the task
\* is not running: CancelledError is raised in it where it waits, an
\* `async with` it is inside gives its lock back, and the call ends there
Cancel(t) ==
    /\ running = None
    /\ tasks[t].pc # "idle"
    /\ tasks' = [tasks EXCEPT ![t] = IdleTask]
    /\ game_lock' = IF game_lock = t THEN None ELSE game_lock
    /\ UNCHANGED <<room_lock, store_lock, lock_calls>>
    /\ last_call' = Call("cancel", FALSE, tasks[t].in_turn)
    /\ UNCHANGED <<players, room, game, active_games, game_history, deck,
                   round_mark, buy_in, running, later, other, evaluation>>

\* The same hand, its calls cancelled at any moment the event loop is free
NextCancel ==
    \/ NextTasks
    \/ \E t \in TaskIds : Cancel(t)

SpecCancel == Init /\ [][NextCancel]_vars

----------------------------------------------------------------------------
(* The locks of the store: _game_locks, _room_locks and _store_lock, as the *)
(* calls of the store take them and give them back                          *)

\* calls are submitted while fewer than this many have been
MaxLockCalls == 2
\* the actions submitted and the players submitting them, the player who
\* joins the room and leaves it, and the chips and seats at the start
LockActionTypes == {"call"}
LockPlayerIds == {"A", "B"}
LockMemberIds == {"C"}
LockStacks == { <<100, 100, 100>> }
LockSeatings == { <<"A", "B">> }

\* the calls whose first `async with` takes the lock of the game, the lock
\* of the room, and the lock of the store
GameLockOps == {"store", "end_game"}
RoomLockOps == {"create_game", "add_player_to_room",
                "remove_player_from_room", "delete_room"}
StoreLockOps == {"create_room", "cleanup_inactive_rooms"}

\* the calls followed: both paths of make_player_action ("service" reaches
\* the locks through _determine_winner and end_game), and the calls above
LockCalls ==
    {[path |-> path, player_id |-> player_id, action_type |-> action_type] :
        path \in {"service", "store"}, player_id \in LockPlayerIds,
        action_type \in LockActionTypes}
    \cup
    {[path |-> path, player_id |-> player_id, action_type |-> "none"] :
        path \in {"add_player_to_room", "remove_player_from_room"},
        player_id \in LockMemberIds}
    \cup
    {[path |-> path, player_id |-> "none", action_type |-> "none"] :
        path \in {"end_game", "create_game", "delete_room"} \cup StoreLockOps}

\* _record_event taking the lock its caller is inside
EventLock_OwnLock(path) == IF path \in RoomLockOps THEN "room" ELSE "game"

\* the lock _record_event takes: `async with self._store_lock`
EventLock(path) == "store"

\* the lock the next `async with` of the call takes (None: the next stretch
\* of the call takes no lock)
NextLock(task, S) ==
    CASE task.pc = "start" /\ task.path \in GameLockOps -> "game"
      [] task.pc = "start" /\ task.path \in RoomLockOps -> "room"
      [] task.pc = "start" /\ task.path \in StoreLockOps -> "store"
      [] task.pc = "paid" -> "game"
      [] task.pc = "event" -> EventLock(task.path)
      [] OTHER -> "none"

\* the task holding the lock (None: the lock is free)
Holder(lock) ==
    CASE lock = "game" -> game_lock
      [] lock = "room" -> room_lock
      [] lock = "store" -> store_lock
      [] OTHER -> None

\* the locks task t holds
Held(t) == {lock \in {"game", "room", "store"} : Holder(lock) = t}

\* leaving its `async with` blocks, task t gives back the locks it holds
Release(t) ==
    /\ game_lock' = IF game_lock = t THEN None ELSE game_lock
    /\ room_lock' = IF room_lock = t THEN None ELSE room_lock
    /\ store_lock' = IF store_lock = t THEN None ELSE store_lock

\* a call of the store or of GameService is made as a task of the event
\* loop, the first one free; games are created in the room one at a time
LockSubmit(t) ==
    /\ running = None
    /\ tasks[t].pc = "idle"
    /\ \A u \in TaskIds : u < t => tasks[u].pc # "idle"
    /\ lock_calls < MaxLockCalls
    /\ \E call \in LockCalls :
          /\ call.path \in {"service", "store"} => game # NoGame
          /\ call.path = "create_game"
                => /\ GamesCreated < MaxHandsStarted
                   /\ \A u \in TaskIds : tasks[u].path # "create_game"
          /\ tasks' = [tasks EXCEPT ![t] =
                          [IdleTask EXCEPT !.pc = "start",
                                           !.path = call.path,
                                           !.player_id = call.player_id,
                                           !.action_type = call.action_type]]
    /\ last_call' = Call("submit", TRUE, FALSE)
    /\ lock_calls' = lock_calls + 1
    /\ UNCHANGED <<players, room, game, active_games, game_history, deck,
                   round_mark, buy_in, running, game_lock, room_lock,
                   store_lock, later, other, evaluation>>

\* `async with` on a lock that is free: task t takes it and goes on
Acquire(t) ==
    /\ running \in {None, t}
    /\ LET task == tasks[t]
           lock == NextLock(task, State)
       IN /\ lock # "none"
          /\ Holder(lock) = None
          /\ game_lock' = IF lock = "game" THEN t ELSE game_lock
          /\ room_lock' = IF lock = "room" THEN t ELSE room_lock
          /\ store_lock' = IF lock = "store" THEN t ELSE store_lock
          /\ tasks' = [tasks EXCEPT ![t] =
                          [task EXCEPT
                              !.pc = IF task.pc = "event" THEN "recording"
                                     ELSE "outer",
                              !.in_turn =
                                  IF task.pc = "start" /\ task.path = "store"
                                  THEN InTurn(State, task.player_id) ELSE @]]
    /\ running' = t
    /\ last_call' = last_call
    /\ UNCHANGED <<players, room, game, active_games, game_history, deck,
                   round_mark, buy_in, lock_calls, later, other, evaluation>>

\* the body of the call under its first lock, up to `await
\* self._record_event`: [ok, S, event], event when _record_event is awaited
LockedCall(S, task, old) ==
    CASE task.path = "store" ->
            LET r == Store_make_player_action(S, GameId, task.player_id,
                                              task.action_type, task.amount)
            IN [ok |-> r.ok, S |-> r.S, event |-> r.ok]
      [] task.path = "service" ->
            [ok |-> TRUE,
             S |-> IF get_game(S, GameId)
                   THEN end_game(S, GameId, task.winners)
                   ELSE [S EXCEPT !.active_games = @ \cup {GameId}],
             event |-> get_game(S, GameId)]
      [] task.path = "end_game" ->
            [ok |-> get_game(S, GameId), S |-> end_game(S, GameId, <<>>),
             event |-> get_game(S, GameId)]
      [] task.path = "create_game" ->
            LET r == Store_create_game([S EXCEPT !.room.game_id = NewGameId],
                                       RoomId)
            IN [ok |-> r.ok, S |-> IF r.ok THEN r.S ELSE S, event |-> r.ok]
      [] task.path = "add_player_to_room" ->
            LET r == Store_add_player_to_room(S, RoomId, task.player_id)
            IN [ok |-> r.ok, S |-> r.S, event |-> r.ok]
      [] task.path = "remove_player_from_room" ->
            LET r == Store_remove_player_from_room(S, RoomId, task.player_id)
            IN [ok |-> r.ok, S |-> r.S, event |-> r.ok]
      [] task.path = "delete_room" ->
            LET r == delete_room(S, RoomId)
            IN [ok |-> r.ok, S |-> r.S, event |-> FALSE]
      [] task.path = "create_room" ->
            [ok |-> TRUE, S |-> create_room(S), event |-> FALSE]
      [] task.path = "cleanup_inactive_rooms" ->
            [ok |-> TRUE, S |-> cleanup_inactive_rooms(S, old),
             event |-> FALSE]

\* task t inside its first lock: the body of the call; it returns from
\* there, giving the lock back, or goes on to _record_event
Body(t) ==
    /\ tasks[t].pc = "outer"
    /\ running \in {None, t}
    /\ \E old \in IF tasks[t].path = "cleanup_inactive_rooms" THEN BOOLEAN
                  ELSE {FALSE} :
          LET task == tasks[t]
              r == LockedCall(State, task, old)
          IN /\ IF task.path = "create_game" /\ r.ok
                THEN BecomeCreated(r.S)
                ELSE Become(r.S)
             /\ IF r.event
                THEN /\ tasks' = [tasks EXCEPT ![t] =
                                     [task EXCEPT !.pc = "event"]]
                     /\ running' =
                           IF Suspends(Holder(EventLock(task.path)) # None)
                           THEN None ELSE t
                     /\ last_call' = last_call
                     /\ UNCHANGED <<game_lock, room_lock, store_lock>>
                ELSE /\ Return(t, r.ok, task.in_turn)
                     /\ Release(t)
    /\ UNCHANGED lock_calls

\* task t inside _record_event: the event is appended, the locks are given
\* back, innermost first, and the call returns; GameService.make_player_action
\* puts the game back in the index before it does
Record(t) ==
    /\ tasks[t].pc = "recording"
    /\ running \in {None, t}
    /\ Become(IF tasks[t].path = "service"
              THEN [State EXCEPT !.active_games = @ \cup {GameId}]
              ELSE State)
    /\ Return(t, TRUE, tasks[t].in_turn)
    /\ Release(t)
    /\ UNCHANGED lock_calls

\* the steps of task t
TaskStep(t) ==
    \/ ServiceValidate(t)
    \/ ServiceApply(t)
    \/ ServiceUpdate(t)
    \/ Acquire(t)
    \/ Body(t)
    \/ Record(t)

\* A room and its hand under concurrent calls of the store, the hand dealt
\* and its phases advanced by the engine up to the river
NextLocks ==
    \/ ((\A t \in TaskIds : tasks[t].path # "create_game") /\ StartNewGame)
    \/ (game # NoGame /\ game.phase \in {"pre_flop", "flop", "turn"}
        /\ EngineAdvance)
    \/ \E t \in TaskIds : LockSubmit(t)
    \/ \E t \in TaskIds : TaskStep(t)

InitLocks ==
    /\ \E st \in LockStacks, seats \in LockSeatings : Seated(st, seats)
    /\ evaluation = NoEvaluation

SpecLocks == InitLocks /\ [][NextLocks]_vars

\* the same, the event loop running every task that is ready
FairLocks == SpecLocks /\ \A t \in TaskIds : WF_vars(TaskStep(t))

----------------------------------------------------------------------------
(* What the claims speak of *)

GamePlayers == IF game = NoGame THEN {} ELSE Range(game.players)

\* the chips held by the players of the game plus the pot
TotalChips ==
    IF game = NoGame THEN 0
    ELSE SumOver([p \in PlayerIds |-> players[p].chips], GamePlayers) + game.pot

NonFolded == {p \in GamePlayers : players[p].status \in {"active", "all_in"}}
ActivePlayers == {p \in GamePlayers : players[p].status = "active"}

\* this step is a call of make_player_action, on either path
ActionStep == last_call'.op \in {"service", "store"}
Accepted == ActionStep /\ last_call'.ok
Rejected == ActionStep /\ ~last_call'.ok

BettingPhases == {"pre_flop", "flop", "turn", "river"}

----------------------------------------------------------------------------
(* C1: across every accepted action, on either path and with the phase     *)
(* advance or showdown payout it triggers, the players' chips plus the pot *)
(* stay the same.                                                          *)
C1_ChipConservation ==
    [][Accepted => TotalChips' = TotalChips]_vars

\* task t is between the validation of its action and its return
InSequence(t) == tasks[t].pc \in {"validated", "applied", "paid", "locked"}

(* C2: two action submissions in flight on the same game are serialized:   *)
(* at most one of them is between its validation and its return, and the   *)
(* game it goes on with is the game it validated against and has itself    *)
(* changed, so the other is validated against the state it leaves behind.  *)
C2_Serialized ==
    /\ Cardinality({t \in TaskIds : InSequence(t)}) <= 1
    /\ \A t \in TaskIds :
          InSequence(t) => tasks[t].base = [game |-> game, players |-> players]

\* two submissions are in flight, on both paths: one has validated and
\* applied its action and has not returned yet, the other has not started
C2_Witness ==
    \E t, u \in TaskIds :
        /\ tasks[t].pc = "applied"
        /\ tasks[u].pc = "start"
        /\ tasks[u].path = "store"
        /\ tasks[u].player_id \in ActivePlayers
        /\ Len(game.action_history) = 1

(* C3: whenever a step of a call of make_player_action changes the         *)
(* GameState or its players, the task making the step holds the game lock. *)
C3_MutationsHoldLock ==
    [][\A t \in TaskIds :
          (tasks'[t] # tasks[t] /\ (game' # game \/ players' # players))
              => game_lock = t]_vars

(* C4: a call of make_player_action that returns failure leaves the game   *)
(* and its players exactly as they were.                                   *)
C4_RejectedUnchanged ==
    [][Rejected => (game' = game /\ players' = players)]_vars

\* the player to act submitted an action in a hand under way, chips standing
\* in the pot and less in hand than the call costs, and it was rejected
C4_Witness ==
    /\ last_call.op \in {"service", "store"}
    /\ ~last_call.ok
    /\ last_call.in_turn
    /\ game.pot > 0
    /\ Len(game.action_history) > 0
    /\ LET p == At(game.players, game.active_player_index)
       IN /\ players[p].status = "active"
          /\ players[p].chips < game.current_bet - players[p].current_bet

(* C5: an action submitted by a player who is not the player at            *)
(* active_player_index is rejected and changes nothing, on both paths.     *)
C5_WrongTurnRejected ==
    [][(ActionStep /\ ~last_call'.in_turn)
           => (~last_call'.ok /\ game' = game /\ players' = players)]_vars

(* C6: an accepted action that leaves exactly one non-folded player ends   *)
(* the hand in that action: the phase becomes FINISHED and that player     *)
(* holds the whole pot.                                                    *)
C6_EarlyTermination ==
    [][(/\ Accepted
        /\ game.phase \in BettingPhases
        /\ Cardinality(NonFolded) > 1
        /\ Cardinality(NonFolded') = 1)
           => /\ game'.phase = "finished"
              /\ game'.pot = 0
              /\ \A p \in NonFolded' :
                    players'[p].chips >= players[p].chips + game.pot]_vars

(* C7: a betting round closes (the phase advances) only when every ACTIVE  *)
(* player has acted since the round began or since the last raise.         *)
C7_RoundClosure ==
    [][(Accepted /\ game.phase \in BettingPhases /\ game'.phase # game.phase)
           => \A p \in ActivePlayers' :
                 \E i \in round_mark..Len(game'.action_history) :
                    game'.action_history[i].player_id = p]_vars

\* this step takes the hand from the river to the showdown
ShowdownStep == game # NoGame /\ game.phase = "river" /\ game'.phase = "showdown"

\* the state the showdown of this step pays out from: the action the step
\* appended applied, or the state itself when the engine advanced the phase
BeforePayout ==
    IF last_call'.op = "service"
    THEN LET a == Last(game'.action_history)
         IN _apply_action(State, a.player_id, a.action_type, a.amount).S
    ELSE State

RECURSIVE SortedDesc(_)
\* the numbers of s, greatest first
SortedDesc(s) ==
    IF s = <<>> THEN <<>>
    ELSE LET i == CHOOSE k \in 1..Len(s) : \A j \in 1..Len(s) : s[j] <= s[k]
         IN <<s[i]>> \o SortedDesc(SubSeq(s, 1, i - 1) \o SubSeq(s, i + 1, Len(s)))

\* a before b in the lexicographic order
LexLess(a, b) ==
    \E i \in 1..Len(a) : a[i] < b[i] /\ \A j \in 1..(i - 1) : a[j] = b[j]

\* (category, tiebreak) of five cards: the category, then the card values,
\* the grouped ones first (a value weighs with the size of its group), each
\* group and the kickers descending; the wheel is a five-high straight
HandKey(cards) ==
    LET wheel == Values(cards) = {2, 3, 4, 5, 14}
        value == _evaluate_five_cards(cards).value
        category == IF wheel /\ value = 10 THEN 9 ELSE value
    IN <<category>> \o
       (IF wheel THEN <<5, 4, 3, 2, 1>>
        ELSE SortedDesc([i \in 1..5 |->
                 Count(cards, Value(cards[i])) * 15 + Value(cards[i])]))

\* the best (category, tiebreak) among the five-card hands of these cards
BestKey(cards) ==
    LET keys == {HandKey(Pick(cards, c, 1)) : c \in Combinations5(Len(cards))}
    IN CHOOSE k \in keys : \A q \in keys : ~LexLess(k, q)

(* C8: at a showdown with the board dealt, the pot is paid to the          *)
(* non-folded players whose best (category, tiebreak) is maximal, in even  *)
(* shares, and every other non-folded player receives nothing.             *)
C8_ShowdownPaysBestHands ==
    [][(ShowdownStep /\ Len(game.community_cards) = 5) =>
          LET B == BeforePayout
              keyed == {<<p, BestKey(players[p].hole_cards \o game.community_cards)>> :
                           p \in NonFolded'}
              best == {r[1] : r \in {x \in keyed :
                                        \A y \in keyed : ~LexLess(x[2], y[2])}}
              share == B.game.pot \div Cardinality(best)
              remainder == B.game.pot % Cardinality(best)
          IN /\ \A p \in NonFolded' \ best :
                   players'[p].chips = B.players[p].chips
             /\ \A p \in best :
                   /\ players'[p].chips >= B.players[p].chips + share
                   /\ players'[p].chips <= B.players[p].chips + share + remainder
      ]_vars

(* C9: at a showdown with a player all-in for less than another player     *)
(* put in, the pot is paid tier by tier: the tier of a contribution level  *)
(* holds (level - previous level) x the number of players who put in at    *)
(* least the level, the tiers add up to the pot, and each tier is shared   *)
(* only among non-folded players who put in at least its level.            *)
C9_SidePots ==
    [][(/\ ShowdownStep
        /\ \E p \in NonFolded', q \in GamePlayers :
              /\ players'[p].status = "all_in"
              /\ buy_in[p] - BeforePayout.players[p].chips
                    < buy_in[q] - BeforePayout.players[q].chips) =>
          LET B == BeforePayout
              P == GamePlayers
              put_in == [p \in P |-> buy_in[p] - B.players[p].chips]
              levels == {put_in[p] : p \in P} \ {0}
              previous(l) == IF \E m \in levels : m < l
                             THEN CHOOSE m \in levels :
                                     m < l /\ \A k \in levels : k < l => k <= m
                             ELSE 0
              tier == [l \in levels |->
                          (l - previous(l)) * Cardinality({p \in P : put_in[p] >= l})]
              eligible == [l \in levels |->
                              {p \in NonFolded' : put_in[p] >= l}]
              paid == [p \in P |-> players'[p].chips - B.players[p].chips]
          IN /\ SumOver(tier, levels) = B.game.pot
             /\ \E W \in [levels -> SUBSET P] :
                   /\ \A l \in levels :
                         /\ W[l] \subseteq eligible[l]
                         /\ eligible[l] # {} => W[l] # {}
                   /\ \A p \in P :
                         LET won == {l \in levels : p \in W[l]}
                             shares == [l \in won |-> tier[l] \div Cardinality(W[l])]
                             odd == [l \in won |-> tier[l] % Cardinality(W[l])]
                         IN /\ paid[p] >= SumOver(shares, won)
                            /\ paid[p] <= SumOver(shares, won) + SumOver(odd, won)
      ]_vars

\* the number of community cards the phase calls for
CardsOfPhase(phase) ==
    CASE phase \in {"waiting", "pre_flop"} -> {0}
      [] phase = "flop" -> {3}
      [] phase = "turn" -> {4}
      [] phase \in {"river", "showdown"} -> {5}
      [] OTHER -> 0..5

(* C10: the number of community cards matches the phase: 0 in WAITING and  *)
(* PRE_FLOP, 3 in FLOP, 4 in TURN, 5 in RIVER and SHOWDOWN.                *)
C10_CommunityCardsMatchPhase ==
    game # NoGame => Len(game.community_cards) \in CardsOfPhase(game.phase)

\* the player at active_player_index
PlayerToAct(g) == At(g.players, g.active_player_index)

(* C11: after every accepted action, on either path, the player at         *)
(* active_player_index is ACTIVE, unless no player of the game is ACTIVE.  *)
C11_ActivePlayerIsActive ==
    [][(Accepted /\ ActivePlayers' # {})
           => players'[PlayerToAct(game')].status = "active"]_vars

\* the place of a phase in GamePhase, WAITING first and FINISHED last
PhaseOrder(phase) ==
    CASE phase = "waiting" -> 0
      [] phase = "pre_flop" -> 1
      [] phase = "flop" -> 2
      [] phase = "turn" -> 3
      [] phase = "river" -> 4
      [] phase = "showdown" -> 5
      [] phase = "finished" -> 6

\* this step resolves the hand: its GameResult is appended to game_history
ResolvingStep == Len(game_history') > Len(game_history)

\* no step takes the game to an earlier phase
PhaseForward ==
    [][(game # NoGame /\ game' # NoGame)
           => PhaseOrder(game'.phase) >= PhaseOrder(game.phase)]_vars

(* C12: the phase of a game only moves forward along WAITING, PRE_FLOP,    *)
(* FLOP, TURN, RIVER, SHOWDOWN, FINISHED, and the step that resolves the   *)
(* hand leaves it in FINISHED.                                             *)
C12_PhaseForwardToFinished ==
    [][(game # NoGame /\ game' # NoGame)
           => /\ PhaseOrder(game'.phase) >= PhaseOrder(game.phase)
              /\ ResolvingStep => game'.phase = "finished"]_vars

\* this step advances the phase of the hand under way
PhaseAdvance ==
    /\ game # NoGame
    /\ game.phase \in BettingPhases
    /\ game'.phase # game.phase

(* C13: immediately after any phase advance every player's current_bet is  *)
(* 0, the table current_bet is 0 and min_raise equals big_blind.           *)
C13_RoundReset ==
    [][PhaseAdvance
           => /\ \A p \in GamePlayers : players'[p].current_bet = 0
              /\ game'.current_bet = 0
              /\ game'.min_raise = game'.big_blind]_vars

\* the GameResult records of game_id in a game_history
ResultsOf(history, game_id) ==
    {i \in 1..Len(history) : history[i].game_id = game_id}

(* C14: once the call of make_player_action whose showdown or early        *)
(* resolution distributed the pot has returned, the game id is no longer   *)
(* in the active-game index and game_history holds exactly one GameResult  *)
(* for it.                                                                 *)
C14_Retirement ==
    [][(Accepted /\ game.pot > 0 /\ game'.pot = 0)
           => /\ ~get_game(State', game.game_id)
              /\ Cardinality(ResultsOf(game_history', game.game_id)) = 1]_vars

(* C15: get_game and get_game_state return a defensive snapshot: a caller  *)
(* assigning to the object it was given (pot, phase, a player's chips)     *)
(* leaves the game and its players, as later calls see them, unchanged.    *)
C15_DefensiveSnapshot ==
    [][last_call'.op = "caller_write"
           => (game' = game /\ players' = players)]_vars

RECURSIVE HoleCards(_, _)
\* the hole cards of the players of the game of S from seat i on
HoleCards(S, i) ==
    IF i > Len(S.game.players) THEN <<>>
    ELSE S.players[S.game.players[i]].hole_cards \o HoleCards(S, i + 1)

\* the cards dealt to the hand of S: hole cards, then the board
DealtTo(S) == HoleCards(S, 1) \o S.game.community_cards

NoRepeat(s) == \A i, j \in 1..Len(s) : i # j => s[i] # s[j]

(* C16: in every reachable state, for each hand, no card appears twice     *)
(* among its hole cards and community cards, however the start_new_game    *)
(* and advance_game_phase calls of two games on the engine interleave.     *)
C16_CardUniqueness ==
    /\ game # NoGame => NoRepeat(DealtTo(State))
    /\ other.game # NoGame => NoRepeat(DealtTo(OtherState))

\* the step is an operation on the game of the first room, of the second
OnGame == last_call'.op \in {"start_new_game", "advance_game_phase"}
OnOther == last_call'.op \in {"other.start_new_game", "other.advance_game_phase"}

\* the cards still to be dealt
Available(d) == Range(Cards(d))

(* C17: an operation on one game leaves every other game unchanged: its    *)
(* players (chips, bets, status, hole cards), its pot, phase and community *)
(* cards, and the cards still available to be dealt to it.                 *)
C17_CrossGameIsolation ==
    [][/\ (OnGame /\ other.game # NoGame)
            => (other' = other /\ Available(deck') = Available(deck))
       /\ (OnOther /\ game # NoGame)
            => (game' = game /\ players' = players
                /\ Available(deck') = Available(deck))]_vars

\* the cards handed to evaluate_hand, and whether it has returned
Input == evaluation.hole_cards \o evaluation.community_cards
Evaluated == evaluation.rank # NoHand

RECURSIVE Ascending(_)
\* the cards of the set C in one fixed order
Ascending(C) ==
    IF C = {} THEN <<>>
    ELSE LET m == CHOOSE x \in C : \A y \in C : x <= y
         IN <<m>> \o Ascending(C \ {m})

(* C18: evaluate_hand returns the same HandRank, the same value and the    *)
(* same five cards, for every order the same cards are supplied in and     *)
(* every split of them into hole and community cards.                      *)
C18_OrderInvariance ==
    Evaluated =>
        LET r == evaluate_hand(<<>>, Ascending(Range(Input)))
        IN /\ evaluation.rank.value = r.value
           /\ Range(evaluation.rank.cards) = Range(r.cards)

\* five cards A, 2, 3, 4, 5 not all of one suit
IsWheel(cards) ==
    Len(cards) = 5 /\ Values(cards) = {14, 2, 3, 4, 5} /\ ~_is_flush(cards)

\* 2, 3, 4, 5, 6, suits mixed
SixHighStraight == <<13, 1, 2, 3, 4>>

(* C19: the wheel A-2-3-4-5 is classified STRAIGHT and, compared with the  *)
(* six-high straight to pick a winner, loses to it.                        *)
C19_AceLowStraight ==
    (Evaluated /\ IsWheel(Input)) =>
        /\ evaluation.rank.rank = "straight"
        /\ BestHands(<<evaluation.rank, _evaluate_five_cards(SixHighStraight)>>)
              = {2}

(* C20: for 5 to 7 cards evaluate_hand returns a five-card subset that is  *)
(* greatest by (category, tiebreak) among all five-card subsets, and no    *)
(* subset of the same category with another tiebreak ties with it when     *)
(* the two are compared.                                                   *)
C20_BestHandSelection ==
    (Evaluated /\ Len(Input) >= 5) =>
        LET best == HandKey(evaluation.rank.cards)
        IN /\ best = BestKey(Input)
           /\ \A c \in Combinations5(Len(Input)) :
                 LET h == Pick(Input, c, 1)
                 IN (HandKey(h)[1] = best[1] /\ HandKey(h) # best)
                       => BestHands(<<evaluation.rank, _evaluate_five_cards(h)>>)
                             # {1, 2}

----------------------------------------------------------------------------
\* this step is a call of GameStore.create_game
CreateStep == last_call'.op \in {"create_game", "create_game.no_room"}

\* the room holds a human player, an agent player
HasHuman == \E p \in Range(room.players) : players[p].is_human
HasAgent == \E p \in Range(room.players) : players[p].is_agent

\* the GameState this call of create_game has created
Created == IF game = NoGame THEN game' ELSE Last(later')

(* C21: create_game returns a GameState only when the room exists and      *)
(* holds at least one human and at least one agent, and the game is then   *)
(* new in active_games and is the room's current_game; otherwise it        *)
(* returns no game and active_games and the room's current_game are as     *)
(* they were.                                                              *)
C21_CreateGameGuard ==
    [][CreateStep =>
          IF last_call'.ok
          THEN /\ last_call'.op = "create_game"
               /\ HasHuman /\ HasAgent
               /\ GamesCreated' = GamesCreated + 1
               /\ Created # NoGame
               /\ Created.players = room.players
               /\ active_games' = active_games \cup {Created.game_id}
               /\ Created.game_id \notin active_games
               /\ room'.current_game = Created.game_id
          ELSE /\ (last_call'.op = "create_game.no_room"
                     \/ ~HasHuman \/ ~HasAgent)
               /\ game' = game
               /\ later' = later
               /\ active_games' = active_games
               /\ room'.current_game = room.current_game]_vars

\* create_game was asked for a game in a room that exists and holds two
\* agents and no human, and returned none
C21_Witness ==
    /\ last_call.op = "create_game"
    /\ ~last_call.ok
    /\ room.players = <<"B", "C">>
    /\ game = NoGame

----------------------------------------------------------------------------
\* the action an accepted call of make_player_action has recorded, and the
\* player who submitted it
Taken == Last(game'.action_history)
Actor == Taken.player_id
AcceptedOf(action_type) == Accepted /\ Taken.action_type = action_type

\* this call paid the pot out and ended the hand (GameStore.end_game)
EndsHand == Len(game_history') > Len(game_history)

\* what a CALL by p costs: table current_bet minus the player's current_bet
CallAmount(p) == game.current_bet - players[p].current_bet

\* an accepted CALL was covered by the player's chips and has debited
\* exactly call_amount, credited the pot with it and left the player's
\* current_bet at the table's, the player still ACTIVE
CallEffect ==
    LET p == Actor
    IN /\ players[p].chips >= CallAmount(p)
       /\ players'[p].chips = players[p].chips - CallAmount(p)
       /\ game'.pot = game.pot + CallAmount(p)
       /\ players'[p].current_bet = game'.current_bet
       /\ players'[p].status = players[p].status

(* C22 as stated: every accepted CALL, on either path, was covered by the  *)
(* player's chips (a CALL the chips do not cover is rejected, never made   *)
(* partial or all-in) and debits exactly call_amount from the player,      *)
(* credits it to the pot and sets player.current_bet = table.current_bet.  *)
C22_CallAsStated ==
    [][AcceptedOf("call") => CallEffect]_vars

\* the chips the accepted action itself has moved from the actor to the pot
PaidIn(p) ==
    IF p # Actor THEN 0
    ELSE CASE Taken.action_type = "call" -> CallAmount(p)
           [] Taken.action_type = "all_in" -> players[p].chips
           [] Taken.action_type = "raise" -> Taken.amount - players[p].current_bet
           [] OTHER -> 0

\* the pot the showdown of this call has split
SplitPot == game.pot + PaidIn(Actor)

\* what the showdown of a call that ends the hand has paid to each player who
\* has not folded: the pot, the chips of this call included, divided by
\* their number, the remainder paid to nobody
ShowdownShare == SplitPot \div Cardinality(NonFolded')

\* the showdown run within this call, on the GameService path at the river:
\* the pot is 0, every player who has not folded holds the chips held before
\* less those paid in by this call plus the share, every other player those
\* held before
ShowdownPaid ==
    /\ last_call'.op = "service"
    /\ game.phase = "river"
    /\ game'.phase = "showdown"
    /\ game'.pot = 0
    /\ \A p \in PlayerIds :
          players'[p].chips =
              players[p].chips - PaidIn(p)
                  + (IF p \in NonFolded' THEN ShowdownShare ELSE 0)

(* C22: every accepted CALL, on either path, was covered by the player's   *)
(* chips (a CALL the chips do not cover is rejected, never made partial or *)
(* all-in), sets player.current_bet = table.current_bet and leaves the     *)
(* player's status as it was. Unless it ends the hand it debits exactly    *)
(* call_amount from the player and credits it to the pot. A CALL that ends *)
(* the hand does so on the GameService path at the river: the showdown run *)
(* within the call pays each of the k players who have not folded          *)
(* (pot + call_amount) \div k, the caller on top of chips - call_amount,    *)
(* pays the remainder to nobody, leaves the chips of the folded players as *)
(* they were and sets the pot to 0.                                        *)
C22_Call ==
    [][AcceptedOf("call") =>
          /\ players[Actor].chips >= CallAmount(Actor)
          /\ players'[Actor].current_bet = game'.current_bet
          /\ players'[Actor].status = players[Actor].status
          /\ IF EndsHand
             THEN /\ ShowdownPaid
                  /\ Actor \in NonFolded'
             ELSE /\ players'[Actor].chips
                        = players[Actor].chips - CallAmount(Actor)
                  /\ game'.pot = game.pot + CallAmount(Actor)]_vars

\* a CALL that cost chips was accepted on the GameStore path: the player has
\* fewer chips than before the hand and stands at the table's current_bet
C22_Witness ==
    /\ last_call.op = "store"
    /\ last_call.ok
    /\ game # NoGame
    /\ Len(game.action_history) > 0
    /\ LET a == Last(game.action_history)
       IN /\ a.action_type = "call"
          /\ players[a.player_id].current_bet = game.current_bet
          /\ game.current_bet > 0
          /\ players[a.player_id].chips < buy_in[a.player_id]

----------------------------------------------------------------------------
(* C23: every accepted RAISE to `amount`, on either path, has              *)
(* amount >= table.current_bet + min_raise, and the player could afford    *)
(* amount - player.current_bet.                                            *)
C23_RaiseLegality ==
    [][AcceptedOf("raise") =>
          /\ Taken.amount >= game.current_bet + game.min_raise
          /\ players[Actor].chips >= Taken.amount - players[Actor].current_bet]_vars

(* C24: after an accepted RAISE to `amount`, on either path, the player's  *)
(* chips have gone down by amount minus the player's previous current_bet, *)
(* the pot has gone up by the same, player.current_bet and                 *)
(* table.current_bet are both amount, and min_raise is amount minus the    *)
(* table current_bet before the raise.                                     *)
C24_RaiseEffect ==
    [][AcceptedOf("raise") =>
          LET p == Actor
              delta == Taken.amount - players[p].current_bet
          IN /\ players'[p].chips = players[p].chips - delta
             /\ game'.pot = game.pot + delta
             /\ players'[p].current_bet = Taken.amount
             /\ game'.current_bet = Taken.amount
             /\ game'.min_raise = Taken.amount - game.current_bet]_vars

(* C25: an accepted ALL_IN, on either path, leaves the player with 0       *)
(* chips and status ALL_IN and the pot greater by the chips the player     *)
(* had; while the phase stays, the player's current_bet is greater by the  *)
(* same chips, table.current_bet has not gone down, and when the player's  *)
(* new current_bet exceeds the table current_bet of before, the table      *)
(* current_bet is that bet and min_raise is the increment over the table   *)
(* current_bet of before.                                                  *)
C25_AllIn ==
    [][AcceptedOf("all_in") =>
          LET p == Actor
              bet == players[p].current_bet + players[p].chips
          IN /\ players'[p].chips = 0
             /\ players'[p].status = "all_in"
             /\ game'.pot = game.pot + players[p].chips
             /\ game'.phase = game.phase =>
                   /\ players'[p].current_bet = bet
                   /\ game'.current_bet >= game.current_bet
                   /\ bet > game.current_bet =>
                         /\ game'.current_bet = bet
                         /\ game'.min_raise = bet - game.current_bet]_vars

----------------------------------------------------------------------------
\* the seats after active_player_index, in seat order round the table, whose
\* player is ACTIVE once the action is applied: k seats further on
ActiveAhead ==
    {k \in 1..(NumPlayers(game) - 1) :
        players'[At(game.players,
                    (game.active_player_index + k) % NumPlayers(game))].status
            = "active"}

(* C26: after an accepted action, on either path, in a betting round that  *)
(* the action does not close (the phase stays), active_player_index is the *)
(* seat of the next player in seat order whose status is ACTIVE, and no    *)
(* FOLDED or ALL_IN player is the player to act while a player of the hand *)
(* is ACTIVE.                                                              *)
C26_TurnAdvance ==
    [][(Accepted /\ game.phase \in BettingPhases /\ game'.phase = game.phase) =>
          /\ ActiveAhead # {} =>
                game'.active_player_index =
                    (game.active_player_index
                        + (CHOOSE k \in ActiveAhead : \A j \in ActiveAhead : k <= j))
                    % NumPlayers(game)
          /\ ActivePlayers' # {} =>
                players'[PlayerToAct(game')].status \notin {"folded", "all_in"}]_vars

----------------------------------------------------------------------------
\* a FOLD of the ACTIVE player to act would be accepted now, on both paths
FoldAccepted ==
    \A p \in GamePlayers :
        (get_game(State, GameId) /\ InTurn(State, p)
            /\ players[p].status = "active")
        => /\ Service_make_player_action(State, GameId, p, "fold", None).ok
           /\ Store_make_player_action(State, GameId, p, "fold", None).ok

\* this step is an accepted FOLD of the ACTIVE player to act
FoldStep ==
    /\ AcceptedOf("fold")
    /\ last_call'.in_turn
    /\ players[Actor].status = "active"

\* no chips have moved: every player's chips and the pot are as before
NoChipsMoved ==
    /\ \A p \in PlayerIds : players'[p].chips = players[p].chips
    /\ game'.pot = game.pot

(* C27 as stated: a FOLD of the ACTIVE player to act is always accepted,   *)
(* on either path, sets the player's status to FOLDED and leaves every     *)
(* player's chips and the pot as they were before the call.                *)
C27_FoldAsStated ==
    [][/\ FoldAccepted
       /\ FoldStep => (players'[Actor].status = "folded" /\ NoChipsMoved)]_vars

(* C27: a FOLD of the ACTIVE player to act is always accepted, on either   *)
(* path, sets the player's status to FOLDED and leaves that player's chips *)
(* as they were; every player's chips and the pot are as they were before  *)
(* the call unless the fold ends the hand. A FOLD that ends the hand does   *)
(* so on the GameService path at the river: the showdown run within the    *)
(* call pays each of the k players who have not folded pot \div k, pays the *)
(* remainder to nobody, leaves the chips of the folded players as they     *)
(* were and sets the pot to 0.                                             *)
C27_Fold ==
    [][/\ FoldAccepted
       /\ FoldStep => /\ players'[Actor].status = "folded"
                      /\ players'[Actor].chips = players[Actor].chips
                      /\ IF EndsHand
                         THEN /\ ShowdownPaid
                              /\ Actor \notin NonFolded'
                              /\ Cardinality(NonFolded') >= 2
                         ELSE NoChipsMoved]_vars

\* the player to act has folded with chips in the pot: the fold was accepted
\* and the hand goes on
C27_Witness ==
    /\ last_call.op \in {"service", "store"}
    /\ last_call.ok
    /\ last_call.in_turn
    /\ game # NoGame
    /\ Len(game.action_history) > 0
    /\ LET a == Last(game.action_history)
       IN /\ a.action_type = "fold"
          /\ players[a.player_id].status = "folded"
          /\ game.pot > 0
          /\ game.phase = "pre_flop"

----------------------------------------------------------------------------
(* C28: in every state of a hand under way, a CHECK of the ACTIVE player to act is accepted    *)
(* exactly when the player's current_bet equals the table current_bet, by  *)
(* GameService.make_player_action and by GameStore.make_player_action.     *)
C28_Check ==
    \A p \in GamePlayers :
        (get_game(State, GameId) /\ InTurn(State, p)
            /\ players[p].status = "active" /\ game.phase \in BettingPhases)
        => LET matched == players[p].current_bet = game.current_bet
           IN /\ Service_make_player_action(State, GameId, p, "check", None).ok
                    <=> matched
              /\ Store_make_player_action(State, GameId, p, "check", None).ok
                    <=> matched

----------------------------------------------------------------------------
\* this call of make_player_action has closed the betting round
ClosesRound == Accepted /\ game.phase \in BettingPhases /\ game'.phase # game.phase

(* C29: in every state after the blinds are posted, every player who has   *)
(* not folded (ACTIVE or ALL_IN) has current_bet <= table current_bet; and *)
(* an action closes the betting round only when no ACTIVE player, the      *)
(* actor aside, stood below the table current_bet.                         *)
C29_BetBound ==
    [][/\ (game' # NoGame /\ game'.phase \in BettingPhases) =>
            \A p \in NonFolded' : players'[p].current_bet <= game'.current_bet
       /\ ClosesRound =>
            \A p \in ActivePlayers' \ {Actor} :
                players[p].current_bet >= game.current_bet]_vars

----------------------------------------------------------------------------
\* the winners the pot of this call was split among, as GameStore.end_game
\* recorded them
Winners == Range(Last(game_history').winners)

\* how far round the table p sits from the dealer, the next seat being first
FromDealer(p) ==
    (IndexOf(game, p) - game.dealer_index - 1) % NumPlayers(game)

\* what the showdown of this call has paid to p
Payout(p) == players'[p].chips - (players[p].chips - PaidIn(p))

(* C30: when a call ends the hand with the pot split among k >= 2 winners, *)
(* each winner is paid pot \div k and the winner closest clockwise from    *)
(* the dealer is paid the remainder pot % k on top, so that the whole pot  *)
(* is paid out.                                                            *)
C30_RemainderChip ==
    [][(Accepted /\ EndsHand /\ Cardinality(Winners) >= 2) =>
          LET k == Cardinality(Winners)
              first == CHOOSE w \in Winners :
                          \A v \in Winners : FromDealer(w) <= FromDealer(v)
          IN /\ \A w \in Winners :
                   Payout(w) = (SplitPot \div k)
                                 + (IF w = first THEN SplitPot % k ELSE 0)
             /\ SumOver([w \in Winners |-> Payout(w)], Winners) = SplitPot
             /\ game'.pot = 0]_vars

-----------------------------------------------------------------------------
\* the seats after the dealer's, in seat order and wrapping, the dealer's own
\* seat last: the k-th of them is (dealer_index + k) % n
SeatAfterDealer(g, k) == (g.dealer_index + k) % NumPlayers(g)

\* the seats of g, counted from the dealer, whose player is ACTIVE in ps
ActiveAfterDealer(g, ps) ==
    {k \in 1..NumPlayers(g) : ps[At(g.players, SeatAfterDealer(g, k))].status = "active"}

\* this accepted action closed the betting round and opened FLOP, TURN or RIVER
OpensRound ==
    /\ ClosesRound
    /\ game'.phase \in {"flop", "turn", "river"}

(* C31: when an accepted action closes a betting round with more than one  *)
(* non-folded player and the phase advances to FLOP, TURN or RIVER,         *)
(* active_player_index is the seat of the first ACTIVE player in seat order *)
(* after the dealer (dealer_index + 1, wrapping): the dealer's own seat     *)
(* only when no other player is ACTIVE.                                     *)
C31_FirstToAct ==
    [][(OpensRound /\ Cardinality(NonFolded') > 1
            /\ ActiveAfterDealer(game', players') # {})
        => \E k \in ActiveAfterDealer(game', players') :
              /\ \A j \in ActiveAfterDealer(game', players') : k <= j
              /\ game'.active_player_index = SeatAfterDealer(game', k)]_vars

-----------------------------------------------------------------------------
\* this step cancels the request of task t
Cancelled(t) ==
    /\ last_call'.op = "cancel"
    /\ tasks[t].pc # "idle"
    /\ tasks'[t] = IdleTask

(* C32: whenever the event loop is free for another task (a reader calling *)
(* get_game, or the cancellation of a request), no call of                 *)
(* make_player_action is between its validation and its return: the game   *)
(* shows every submitted action in full or not at all, a game at showdown  *)
(* has been ended, the call that ended it having paid the pot out, and a   *)
(* request that is cancelled had not started, so the game and the players  *)
(* are as it found them.                                                   *)
C32_NoPartialState ==
    [][/\ running' = None =>
            /\ \A t \in TaskIds : ~InSequence(t)'
            /\ (game' # NoGame /\ game'.phase = "showdown")
                => Len(game_history') > 0
            /\ (last_call'.op = "service" /\ EndsHand)
                => (game'.phase = "showdown" /\ game'.pot = 0)
       /\ \A t \in TaskIds :
             Cancelled(t) => /\ tasks[t].pc = "start"
                             /\ game' = game
                             /\ players' = players
                             /\ game_lock' = game_lock]_vars

\* a request was cancelled after another one, made through GameService, had
\* closed the river round, paid the pot out and ended the game
C32_Witness ==
    /\ last_call.op = "cancel"
    /\ running = None
    /\ game # NoGame
    /\ game.phase = "showdown"
    /\ Len(game.action_history) > 0
    /\ game.pot = 0
    /\ Len(game_history) > 0

-----------------------------------------------------------------------------
(* C33: once the blinds are posted, and after every sequence of actions on *)
(* either action path, every player's chips and current_bet, the table     *)
(* current_bet and the pot are all >= 0.                                   *)
(* It holds while a room has one hand.  It fails in SpecRoomHands: neither *)
(* start_new_game nor create_game looks at the hand the room already has,  *)
(* the two hands share the room's Player objects, and a bet made in one    *)
(* hand makes call_amount negative in the other.                           *)
C33_NonNegative ==
    game # NoGame =>
        /\ \A p \in GamePlayers : players[p].chips >= 0
                                    /\ players[p].current_bet >= 0
        /\ game.current_bet >= 0
        /\ game.pot >= 0

\* a player has put the last chips in as a blind that they could not cover,
\* and an action has been accepted since
C33_Witness ==
    /\ game # NoGame
    /\ game.phase \in BettingPhases
    /\ last_call.op \in {"service", "store"}
    /\ last_call.ok
    /\ \E p \in GamePlayers : /\ players[p].chips = 0
                              /\ players[p].status = "active"
                              /\ players[p].current_bet < game.big_blind
                              /\ players[p].current_bet > 0

-----------------------------------------------------------------------------
\* five cards of one suit
Suited(cards) == Len(cards) = 5 /\ _is_flush(cards)

(* C34: _evaluate_five_cards returns ROYAL_FLUSH only for 10-J-Q-K-A of one *)
(* suit; A-2-3-4-5 of one suit is classified STRAIGHT_FLUSH.                *)
C34_RoyalFlush ==
    (Evaluated /\ Len(Input) = 5) =>
        /\ evaluation.rank.rank = "royal_flush"
              => (Suited(Input) /\ Values(Input) = {10, 11, 12, 13, 14})
        /\ (Suited(Input) /\ Values(Input) = {14, 2, 3, 4, 5})
              => evaluation.rank.rank = "straight_flush"

-----------------------------------------------------------------------------
(* C35: a call of make_player_action, on either path, is accepted only     *)
(* while the game is in a betting phase: in WAITING, SHOWDOWN and FINISHED *)
(* every action is rejected and no player's chips and no pot change.       *)
C35_BettingPhasesOnly ==
    [][(ActionStep /\ game # NoGame /\ game.phase \notin BettingPhases)
           => /\ ~last_call'.ok
              /\ game'.pot = game.pot
              /\ \A p \in GamePlayers : players'[p].chips = players[p].chips]_vars

-----------------------------------------------------------------------------
\* this step is a call of add_player_to_room on the room
AddStep == last_call'.op = "add_player_to_room"

\* the room holds no player twice
NoDuplicate(seats) ==
    \A i, j \in 1..Len(seats) : seats[i] = seats[j] => i = j

(* C36: after any sequence of add_player_to_room and                       *)
(* remove_player_from_room calls the room holds at most max_players        *)
(* players and no two players with the same id; an add to a full room, or  *)
(* of an id the room already holds, returns failure and leaves the         *)
(* membership as it was.                                                   *)
C36_RoomMembership ==
    [][/\ Len(room'.players) <= room'.max_players
       /\ NoDuplicate(room'.players)
       /\ AddStep =>
            LET joined == Range(room'.players) \ Range(room.players)
                fits == Len(room.players) < room.max_players
            IN IF last_call'.ok
               THEN /\ fits
                    /\ Cardinality(joined) = 1
                    /\ joined \cap Range(room.players) = {}
                    /\ Len(room'.players) = Len(room.players) + 1
               ELSE room'.players = room.players]_vars

\* a room created for two players is full and an add to it has just failed
C36_Witness ==
    /\ last_call.op = "add_player_to_room"
    /\ ~last_call.ok
    /\ room.max_players = 2
    /\ Len(room.players) = 2

-----------------------------------------------------------------------------
(* C37: after any sequence of create_game and end_game calls the room has  *)
(* at most one game in active_games, and every game in active_games is the *)
(* current_game of the room.                                               *)
C37_OneActiveGame ==
    /\ Cardinality(active_games) <= 1
    /\ \A game_id \in active_games : room.current_game = game_id

(***************************************************************************)
(* C38. Deadlock freedom: under any interleaving of make_player_action     *)
(* (both paths), end_game, create_game, add_player_to_room,                *)
(* remove_player_from_room, delete_room, create_room and                   *)
(* cleanup_inactive_rooms, the event loop running every ready task, every  *)
(* call that starts eventually returns; a task takes the store lock only   *)
(* while it holds at most one game or room lock, takes no game or room     *)
(* lock while it holds the store lock, and never waits for a lock it holds *)
(***************************************************************************)
\* task t takes the lock in this step
Takes(t, lock) == Holder(lock) # t /\ Holder(lock)' = t

C38_DeadlockFree ==
    /\ [][\A t \in TaskIds :
             /\ Takes(t, "store")
                   => Cardinality(Held(t) \ {"store"}) <= 1
             /\ Takes(t, "game") \/ Takes(t, "room")
                   => "store" \notin Held(t)]_vars
    /\ [](\A t \in TaskIds : NextLock(tasks[t], State) \notin Held(t))
    /\ \A t \in TaskIds : (tasks[t].pc # "idle") ~> (tasks[t].pc = "idle")

\* GameService.make_player_action closed the river and is inside
\* _record_event, under the game lock and the store lock, while a call of
\* end_game on the same game is ready to run
C38_Witness ==
    \E t, u \in TaskIds :
        /\ t # u
        /\ tasks[t].path = "service"
        /\ tasks[t].pc = "recording"
        /\ Held(t) = {"game", "store"}
        /\ tasks[u].path = "end_game"
        /\ tasks[u].pc = "start"

(***************************************************************************)
(* C39. Hand progress: in the GameService path, from any started hand, if  *)
(* the player to act keeps submitting legal actions the hand eventually    *)
(* reaches settlement (the pot distributed and the game ended); no legal   *)
(* action leaves the hand where it was, and the hand does not stay         *)
(* unsettled with no legal action left, when the non-folded players are    *)
(* all ALL_IN or one ACTIVE player remains                                 *)
(***************************************************************************)
\* the pot is distributed and the game ended
Settled == game # NoGame /\ game.pot = 0 /\ game_history # <<>>

\* as many actions were submitted as are followed
Exhausted ==
    game # NoGame /\ Len(game.action_history) >= MaxProgressActions

\* an accepted action that changes nothing of the hand but action_history,
\* which no line of GameService reads: the same action is accepted again,
\* without end
IdleStep ==
    /\ Accepted
    /\ players' = players
    /\ game' = [game EXCEPT !.action_history = game'.action_history]
    /\ game_history' = game_history

C39_HandProgress ==
    /\ [][~Settled => ~IdleStep]_vars
    /\ (game # NoGame) ~> (Settled \/ Exhausted)

(***************************************************************************)
(* C40. The two implementations of an action agree: in every state, for    *)
(* every action (kind, amount) of the player to act,                       *)
(* GameStore.make_player_action and GameService.make_player_action         *)
(* (_validate_action, _apply_action) both accept or both reject, and when  *)
(* they accept they leave the same chips, current_bet and status of the    *)
(* player and the same pot, current_bet and min_raise of the table         *)
(***************************************************************************)
\* what an action leaves of the player and of the table
Outcome(S, player_id) ==
    [chips |-> S.players[player_id].chips,
     current_bet |-> S.players[player_id].current_bet,
     status |-> S.players[player_id].status,
     pot |-> S.game.pot,
     table_current_bet |-> S.game.current_bet,
     min_raise |-> S.game.min_raise]

C40_PathsAgree ==
    game # NoGame =>
        \A action_type \in ActionTypes :
        \A amount \in AmountsOf(action_type) :
            LET player_id == At(game.players, game.active_player_index)
                store == Store_make_player_action(State, GameId, player_id,
                                                  action_type, amount)
                applied == _apply_action(State, player_id, action_type,
                                         amount)
                service_ok ==
                    /\ get_game(State, GameId)
                    /\ _validate_action(players[player_id], game,
                                        action_type, amount)
                    /\ applied.ok
            IN /\ store.ok = service_ok
               /\ store.ok => Outcome(store.S, player_id)
                                 = Outcome(applied.S, player_id)

====
